---- MODULE Spec2Model ----
(***************************************************************************)
(* Pizza-ordering backend (msa46/Database-project): the order, discount,   *)
(* loyalty and delivery-assignment operations of QueryManager              *)
(* (src/src/database/queryManager.py) over the entities of                 *)
(* src/src/database/models.py.  Every operation runs in one Pony           *)
(* db_session: its writes are made on a session copy of the store and      *)
(* reach the store only when the operation returns; an exception rolls     *)
(* the session back.                                                       *)
(***************************************************************************)
EXTENDS Integers, Sequences, FiniteSets, TLC

\* ------------------------------------------------------------------ bounds
MaxStock  == 2      \* initial stock of the best-stocked pizza
MaxOrders == 2      \* orders the store may hold
MaxTime   == 2      \* last instant of the clock

\* ------------------------------------------------------- program constants
DefaultStock      == 1      \* Pizza.stock default
LoyaltyThreshold  == 10     \* points at which a loyalty code is minted
LoyaltyPercentage == 10     \* percentage of a loyalty code
LoyaltyDays       == 30     \* validity of a loyalty code
BirthdayDays      == 7      \* validity of a birthday code
YearDays          == 365    \* days after which a month and day come round again
TokenLifetime     == 1      \* ACCESS_TOKEN_EXPIRE_MINUTES, in ticks of the clock

\* ---------------------------------------------------------------- entities
Customers       == {1, 2}           \* User rows of classtype Customer
DeliveryPersons == {3, 4}           \* ids a User row of classtype DeliveryPerson may have
Pizzas          == {1, 2}
Extras          == {1, 2, 3}
ExtraType       == [e \in Extras |-> IF e = 2 THEN "Dessert" ELSE "Drink"]
Ingredients     == {1, 2, 3}
IngredientType  == [i \in Ingredients |->
                      IF i = 1 THEN "Vegan" ELSE IF i = 2 THEN "Vegetarian" ELSE "Normal"]

\* Money is counted in cents. Ingredient.price and Extra.price:
IngredientPrice == [i \in Ingredients |-> IF i = 1 THEN 50 ELSE IF i = 2 THEN 100 ELSE 250]
ExtraPrice      == [e \in Extras |-> IF e = 1 THEN 200 ELSE IF e = 2 THEN 100 ELSE 150]

DeliveryStatus == {"Available", "On Delivery", "Off Duty"}
OrderStatus    == {"Pending", "In Progress", "Delivered", "Cancelled"}

\* A PonyOptional attribute: the empty set is None, {x} is the value x.
None    == {}
Some(x) == {x}

\* User.postalCode is Required(str): never empty.
UserPostalCode == [u \in Customers \cup DeliveryPersons |-> "1011AB"]

VARIABLES
    now,            \* datetime.now(), in days
    stock,          \* Pizza.stock
    orders,         \* Order rows, by id (1..Len)
    dpStatus,       \* DeliveryPerson.status, by id of the existing delivery persons
    dpRows,         \* row order of an unordered SELECT over DeliveryPerson
    ingredients,    \* Pizza.ingredients
    codes,          \* DiscountCode rows, by code
    loyalty_points, \* Customer.loyalty_points
    last,           \* the call of the last step: operation, arguments, error raised, value returned
    txn,            \* request -> the transaction it runs: position, pizza, quantity, stock read
    birthdate,      \* Customer id -> the day of birth (days before day 0 are negative), or None
    applied,        \* history: the codes some order creation has succeeded with
    supplied        \* history: by order id, the code the order was created with ("" for none)

vars == <<now, stock, orders, dpStatus, dpRows, ingredients, codes, loyalty_points, last, applied,
         supplied, birthdate, txn>>

\* The store as one db_session sees and changes it.
Session == [stock |-> stock, orders |-> orders, dpStatus |-> dpStatus, dpRows |-> dpRows,
            ingredients |-> ingredients, codes |-> codes, loyalty_points |-> loyalty_points]

\* User.get(id=...) finds customers and delivery persons alike.
Users(s) == Customers \cup DOMAIN s.dpStatus

\* An operation's outcome: the session it leaves, the message of the exception
\* it raised ("" when it returned) and the value it returned.
Return(s, v) == [s |-> s, error |-> "", ret |-> v]
Raise(s, msg) == [s |-> s, error |-> msg, ret |-> None]

\* A faulty db_session, for C4: the session is committed even when the body raises.
db_session_autocommit(before, r) == r.s

\* db_session: the session's writes are committed when the body returns
\* (commit() is the body's last statement) and rolled back when it raises.
db_session(before, r) == IF r.error = "" THEN r.s ELSE before

\* ------------------------------------------------------------ discount codes
\* A faulty is_valid, for C7: valid_from is not looked at.
is_valid_ignoring_valid_from(dc, t) ==
    /\ ~dc.used
    /\ dc.valid_until >= t

\* get_discount_code_details: None for an unknown code, else its details;
\* is_valid is the "currently usable" check.
is_valid(dc, t) ==
    /\ ~dc.used
    /\ (dc.valid_from = None \/ \A f \in dc.valid_from : f <= t)
    /\ dc.valid_until >= t

get_discount_code_details(s, code, t) ==
    IF code \notin DOMAIN s.codes THEN None
    ELSE Some([code |-> code, percentage |-> s.codes[code].percentage,
               used |-> s.codes[code].used,
               is_valid |-> is_valid(s.codes[code], t)])

\* User.discount_code and DiscountCode.used_by are the two ends of one
\* one-to-one relation: linking user and code unlinks what either end held.
LinkDiscountCode(cs, user, code) ==
    [c \in DOMAIN cs |->
        IF c = code THEN [cs[c] EXCEPT !.used_by = Some(user)]
        ELSE IF cs[c].used_by = Some(user) THEN [cs[c] EXCEPT !.used_by = None]
        ELSE cs[c]]

\* "Mark discount code as used if it's a one-time use": only a birthday code
\* (percentage 0.0) gets used = True and used_by = user.
MarkUsed(cs, user, code) ==
    IF cs[code].percentage = 0
    THEN [LinkDiscountCode(cs, user, code) EXCEPT ![code].used = TRUE]
    ELSE cs

\* --------------------------------------------------------- delivery persons
\* A faulty get_available_delivery_persons, for C10: the status filter is missing.
get_all_delivery_persons(s) == s.dpRows

\* list(DeliveryPerson.select()[:]) filtered on status: the rows in the order
\* the store returns them (the query has no ORDER BY).
get_available_delivery_persons(s) ==
    SelectSeq(s.dpRows, LAMBDA d : s.dpStatus[d] = "Available")

\* random.choice over all delivery persons; None when there is none.
get_random_delivery_person(s, rnd) ==
    IF DOMAIN s.dpStatus = {} THEN None ELSE Some(rnd)

\* An UPDATE of a row may leave it in place or move it to the end of the
\* table's scan order, depending on the storage engine.
MoveToEnd(rows, d) == Append(SelectSeq(rows, LAMBDA x : x # d), d)
RowsAfterUpdate(rows, touched, moved) ==
    IF moved /\ touched # None
    THEN MoveToEnd(rows, CHOOSE d \in touched : TRUE)
    ELSE rows

\* ------------------------------------------------ create_multiple_pizza_order
\* A faulty CheckLine, for C1: the stock is not compared with the quantity.
CheckLineWithoutStock(s, line) ==
    LET pizza_id == line[1]
        quantity == line[2]
    IN  IF pizza_id \notin Pizzas THEN "Pizza not found"
        ELSE IF quantity <= 0 THEN "Quantity must be positive"
        ELSE ""

\* The validation of one [pizza_id, quantity] line against the stock.
CheckLine(s, line) ==
    LET pizza_id == line[1]
        quantity == line[2]
    IN  IF pizza_id \notin Pizzas THEN "Pizza not found"
        ELSE IF quantity <= 0 THEN "Quantity must be positive"
        ELSE IF s.stock[pizza_id] < quantity THEN "Insufficient stock"
        ELSE ""

\* "Validate all pizzas exist and check stock": the first failing line's error.
RECURSIVE ValidateLines(_, _, _)
ValidateLines(s, pq, i) ==
    IF i > Len(pq) THEN ""
    ELSE IF CheckLine(s, pq[i]) # "" THEN CheckLine(s, pq[i])
    ELSE ValidateLines(s, pq, i + 1)

\* A faulty AddRelation, for C26: a second line of the same pizza is accepted.
AddRelationUnchecked(s, oid, line) ==
    Return([s EXCEPT !.orders[oid].lines = Append(@, line)], None)

\* OrderPizzaRelation(order, pizza, quantity): PrimaryKey(order, pizza), so a
\* second relation of the same order and pizza raises CacheIndexError.
AddRelation(s, oid, line) ==
    IF \E k \in 1..Len(s.orders[oid].lines) : s.orders[oid].lines[k][1] = line[1]
    THEN Raise(s, "CacheIndexError")
    ELSE Return([s EXCEPT !.orders[oid].lines = Append(@, line)], None)

\* One round of "Add pizzas with quantities and update stock".
AddLine(s, oid, line) ==
    LET r == AddRelation(s, oid, line)
    IN  IF r.error # "" THEN r
        ELSE Return([r.s EXCEPT !.stock[line[1]] = @ - line[2]], None)

RECURSIVE AddLines(_, _, _, _)
AddLines(s, oid, pq, i) ==
    IF i > Len(pq) THEN Return(s, None)
    ELSE LET r == AddLine(s, oid, pq[i])
         IN  IF r.error # "" THEN r ELSE AddLines(r.s, oid, pq, i + 1)

\* "Add extras if provided": an unknown id raises after the earlier ones were added.
RECURSIVE AddExtras(_, _, _, _)
AddExtras(s, oid, extra_ids, i) ==
    IF i > Len(extra_ids) THEN Return(s, None)
    ELSE IF extra_ids[i] \notin Extras THEN Raise(s, "Extra not found")
    ELSE AddExtras([s EXCEPT !.orders[oid].extras = @ \cup {extra_ids[i]}],
                   oid, extra_ids, i + 1)

\* A faulty FlipIfAvailable, for C11: whoever is assigned is set On Delivery.
FlipWhoeverIsAssigned(s, delivery_person) ==
    IF delivery_person # None
    THEN [s EXCEPT !.dpStatus =
            [d \in DOMAIN @ |-> IF d \in delivery_person THEN "On Delivery" ELSE @[d]]]
    ELSE s

\* "Update delivery person status if they were available".
FlipIfAvailable(s, delivery_person) ==
    IF delivery_person # None /\ \A d \in delivery_person : s.dpStatus[d] = "Available"
    THEN [s EXCEPT !.dpStatus =
            [d \in DOMAIN @ |-> IF d \in delivery_person THEN "On Delivery" ELSE @[d]]]
    ELSE s

\* "Apply discount code if provided" of create_multiple_pizza_order.
ApplyDiscountCode(s, user, discount_code, t) ==
    IF discount_code = "" THEN Return(s, None)
    ELSE LET dc_details == get_discount_code_details(s, discount_code, t)
         IN  IF dc_details = None \/ \E d \in dc_details : ~d.is_valid
             THEN Raise(s, "Invalid or expired discount code")
             ELSE IF discount_code \notin DOMAIN s.codes
             THEN Raise(s, "Discount code not found")
             ELSE Return([s EXCEPT !.codes =
                            MarkUsed(LinkDiscountCode(s.codes, user, discount_code),
                                     user, discount_code)], None)

NewOrder(user, postal, delivery_person) ==
    [user |-> user, lines |-> <<>>, extras |-> {}, status |-> "Pending",
     delivered_at |-> None, delivery_person |-> delivery_person, postalCode |-> postal]

\* create_multiple_pizza_order; rnd is the pick of random.choice in
\* get_random_delivery_person. Returns the new order's id.
create_multiple_pizza_order(s, user_id, pizza_quantities, extra_ids, discount_code, postal_code, rnd, t) ==
    IF user_id \notin Users(s) THEN Raise(s, "User not found")
    ELSE LET final_postal_code == IF postal_code # "" THEN postal_code
                                  ELSE UserPostalCode[user_id]
    IN
    IF final_postal_code = "" THEN Raise(s, "Postal code must be provided")
    ELSE IF pizza_quantities = <<>> THEN Raise(s, "At least one pizza is required")
    ELSE IF ValidateLines(s, pizza_quantities, 1) # ""
    THEN Raise(s, ValidateLines(s, pizza_quantities, 1))
    ELSE LET available_dps == get_available_delivery_persons(s)
             delivery_person == IF available_dps # <<>> THEN Some(available_dps[1])
                                ELSE get_random_delivery_person(s, rnd)
             oid == Len(s.orders) + 1
             s1 == [s EXCEPT !.orders =
                      Append(@, NewOrder(user_id, final_postal_code, delivery_person))]
             r2 == AddLines(s1, oid, pizza_quantities, 1)
    IN
    IF r2.error # "" THEN r2
    ELSE LET r3 == AddExtras(r2.s, oid, extra_ids, 1) IN
    IF r3.error # "" THEN r3
    ELSE LET s4 == FlipIfAvailable(r3.s, delivery_person)
             r5 == ApplyDiscountCode(s4, user_id, discount_code, t)
    IN
    IF r5.error # "" THEN r5 ELSE Return(r5.s, Some(oid))

\* The delivery person rows a session changed.
TouchedDp(before, after) == {d \in DOMAIN before.dpStatus : before.dpStatus[d] # after.dpStatus[d]}

Commit(after, moved) ==
    /\ stock' = after.stock
    /\ orders' = after.orders
    /\ dpStatus' = after.dpStatus
    /\ codes' = after.codes
    /\ loyalty_points' = after.loyalty_points
    /\ ingredients' = after.ingredients
    /\ dpRows' = RowsAfterUpdate(dpRows, TouchedDp(Session, after), moved)

\* The record of a call kept in last.
NoCall == [op |-> "", error |-> "", ret |-> None, user_id |-> 0, pizza_quantities |-> <<>>,
           extra_ids |-> <<>>, discount_code |-> "", order_id |-> 0, status |-> None,
           delivered_at |-> None, pizza_id |-> 0, status_code |-> 0,
           token |-> None]

\* The history of codes applied, after a creation call.
Applied(r, discount_code) ==
    IF r.error = "" /\ discount_code # "" THEN applied \cup {discount_code} ELSE applied
Supplied(r, discount_code) ==
    IF r.error = "" THEN Append(supplied, discount_code) ELSE supplied
Call(op, r) == [NoCall EXCEPT !.op = op, !.error = r.error, !.ret = r.ret]

\* POST /order-multiple-pizzas: create_multiple_pizza_order inside the
\* endpoint's "with db_session".
CreateMultiplePizzaOrder(user_id, pizza_quantities, extra_ids, discount_code, postal_code, rnd, moved) ==
    LET r == create_multiple_pizza_order(Session, user_id, pizza_quantities, extra_ids,
                                         discount_code, postal_code, rnd, now)
    IN  /\ r.error # "" \/ Len(orders) < MaxOrders
        /\ Commit(db_session(Session, r), moved)
        /\ last' = [Call("create_multiple_pizza_order", r) EXCEPT
                      !.user_id = user_id, !.pizza_quantities = pizza_quantities,
                      !.extra_ids = extra_ids, !.discount_code = discount_code]
        /\ applied' = Applied(r, discount_code)
        /\ supplied' = Supplied(r, discount_code)
        /\ UNCHANGED <<now, birthdate, txn>>

\* ---------------------------------------------------------------- create_order
\* "Validate all pizzas exist before creating order": no stock check here.
RECURSIVE ValidatePizzas(_, _)
ValidatePizzas(pq, i) ==
    IF i > Len(pq) THEN ""
    ELSE IF pq[i][1] \notin Pizzas THEN "Pizza not found"
    ELSE IF pq[i][2] < 1 THEN "Invalid quantity"
    ELSE ValidatePizzas(pq, i + 1)

\* "Add pizzas with quantities": relations only, the stock is not touched.
RECURSIVE AddRelations(_, _, _, _)
AddRelations(s, oid, pq, i) ==
    IF i > Len(pq) THEN Return(s, None)
    ELSE LET r == AddRelation(s, oid, pq[i])
         IN  IF r.error # "" THEN r ELSE AddRelations(r.s, oid, pq, i + 1)

\* "Apply discount code if provided" of create_order: the code is not linked
\* to the user unless it is a birthday code.
ApplyDiscountCodeLegacy(s, user, discount_code, t) ==
    IF discount_code = "" THEN Return(s, None)
    ELSE LET dc_details == get_discount_code_details(s, discount_code, t)
         IN  IF dc_details = None \/ \E d \in dc_details : ~d.is_valid
             THEN Raise(s, "Invalid or expired discount code")
             ELSE IF discount_code \notin DOMAIN s.codes
             THEN Raise(s, "Discount code not found")
             ELSE Return([s EXCEPT !.codes = MarkUsed(s.codes, user, discount_code)], None)

create_order(s, user_id, pizza_quantities, extra_ids, discount_code, status, delivery_person_id, postal_code, t) ==
    IF user_id = 0 THEN Raise(s, "User ID is required")
    ELSE IF pizza_quantities = <<>> THEN Raise(s, "At least one pizza is required")
    ELSE IF user_id \notin Users(s) THEN Raise(s, "User not found")
    ELSE LET final_postal_code == IF postal_code # "" THEN postal_code
                                  ELSE UserPostalCode[user_id]
    IN
    IF final_postal_code = "" THEN Raise(s, "Postal code must be provided")
    ELSE IF delivery_person_id # None /\ delivery_person_id \cap DOMAIN s.dpStatus = {}
    THEN Raise(s, "Delivery person not found")
    ELSE IF ValidatePizzas(pizza_quantities, 1) # ""
    THEN Raise(s, ValidatePizzas(pizza_quantities, 1))
    ELSE IF \E k \in 1..Len(extra_ids) : extra_ids[k] \notin Extras
    THEN Raise(s, "Extra not found")
    ELSE LET oid == Len(s.orders) + 1
             s1 == [s EXCEPT !.orders =
                      Append(@, [NewOrder(user_id, final_postal_code, delivery_person_id)
                                   EXCEPT !.status = status])]
             r2 == AddRelations(s1, oid, pizza_quantities, 1)
    IN
    IF r2.error # "" THEN r2
    ELSE LET r3 == AddExtras(r2.s, oid, extra_ids, 1)
             r4 == ApplyDiscountCodeLegacy(r3.s, user_id, discount_code, t)
    IN
    IF r4.error # "" THEN r4 ELSE Return(r4.s, Some(oid))

\* QueryManager.create_order under its @db_session.
CreateOrder(user_id, pizza_quantities, extra_ids, discount_code, status, delivery_person_id) ==
    LET r == create_order(Session, user_id, pizza_quantities, extra_ids, discount_code,
                          status, delivery_person_id, "", now)
    IN  /\ r.error # "" \/ Len(orders) < MaxOrders
        /\ Commit(db_session(Session, r), FALSE)
        /\ last' = [Call("create_order", r) EXCEPT
                      !.user_id = user_id, !.pizza_quantities = pizza_quantities,
                      !.extra_ids = extra_ids, !.discount_code = discount_code]
        /\ applied' = Applied(r, discount_code)
        /\ supplied' = Supplied(r, discount_code)
        /\ UNCHANGED <<now, birthdate, txn>>

\* ---------------------------------------------------------------- update_order
BlankStrings == {"", " "}       \* strings whose strip() is empty

\* A faulty SetStatus, for C12: delivered_at is stamped at every move to Delivered.
SetStatusStampingAlways(o, status, t) ==
    IF status = None THEN o
    ELSE LET st == CHOOSE x \in status : TRUE
         IN  IF st = "Delivered"
             THEN [o EXCEPT !.status = st, !.delivered_at = Some(t)]
             ELSE [o EXCEPT !.status = st]

\* A faulty SetStatus, for C28: the move to In Progress unassigns the order.
SetStatusUnassigning(o, status, t) ==
    IF status = None THEN o
    ELSE LET st == CHOOSE x \in status : TRUE
             o1 == [o EXCEPT !.status = st]
         IN  IF st = "Delivered" /\ o1.delivered_at = None
             THEN [o1 EXCEPT !.delivered_at = Some(t)]
             ELSE IF st = "In Progress" THEN [o1 EXCEPT !.delivery_person = None]
             ELSE o1

\* "Update order fields within transaction": status, then delivered_at.
SetStatus(o, status, t) ==
    IF status = None THEN o
    ELSE LET st == CHOOSE x \in status : TRUE
             o1 == [o EXCEPT !.status = st]
         IN  IF st = "Delivered" /\ o1.delivered_at = None
             THEN [o1 EXCEPT !.delivered_at = Some(t)]
             ELSE o1

update_order(s, order_id, status, delivered_at, delivery_person_id, postal_code, t) ==
    IF order_id = 0 THEN Raise(s, "Order ID is required")
    ELSE IF order_id \notin 1..Len(s.orders) THEN Raise(s, "Order not found")
    ELSE IF delivery_person_id # None /\ delivery_person_id \cap DOMAIN s.dpStatus = {}
    THEN Raise(s, "Delivery person not found")
    ELSE LET o1 == SetStatus(s.orders[order_id], status, t)
             o2 == IF delivered_at # None THEN [o1 EXCEPT !.delivered_at = delivered_at] ELSE o1
             o3 == IF delivery_person_id # None
                   THEN [o2 EXCEPT !.delivery_person = delivery_person_id] ELSE o2
             s3 == [s EXCEPT !.orders[order_id] = o3]
    IN
    IF postal_code = None THEN Return(s3, Some(order_id))
    ELSE IF postal_code \subseteq BlankStrings THEN Raise(s3, "Postal code cannot be empty")
    ELSE Return([s3 EXCEPT !.orders[order_id].postalCode = CHOOSE x \in postal_code : TRUE],
                Some(order_id))

\* A faulty UpdateOrder, for C20: delivery releases the order's delivery person.
UpdateOrderReleasing(order_id, status, delivered_at, delivery_person_id, postal_code) ==
    LET r == update_order(Session, order_id, status, delivered_at, delivery_person_id,
                          postal_code, now)
        released == IF r.error = "" /\ status = Some("Delivered")
                    THEN [r EXCEPT !.s.dpStatus =
                            [d \in DOMAIN @ |->
                                IF d \in r.s.orders[order_id].delivery_person
                                THEN "Available" ELSE @[d]]]
                    ELSE r
    IN  /\ Commit(db_session(Session, released), FALSE)
        /\ last' = [Call("update_order", r) EXCEPT !.order_id = order_id, !.status = status,
                                                   !.delivered_at = delivered_at]
        /\ UNCHANGED <<now, applied, supplied, birthdate, txn>>

\* QueryManager.update_order under its @db_session.
UpdateOrder(order_id, status, delivered_at, delivery_person_id, postal_code) ==
    LET r == update_order(Session, order_id, status, delivered_at, delivery_person_id,
                          postal_code, now)
    IN  /\ Commit(db_session(Session, r), FALSE)
        /\ last' = [Call("update_order", r) EXCEPT !.order_id = order_id, !.status = status,
                                                   !.delivered_at = delivered_at]
        /\ UNCHANGED <<now, applied, supplied, birthdate, txn>>

\* ------------------------------------------------- assign_delivery_person_to_order
\* A faulty assign_delivery_person_to_order, for C8: an order that already has
\* a delivery person is given another one.
assign_delivery_person_without_check(s, order_id) ==
    IF order_id = 0 THEN Raise(s, "Order ID is required")
    ELSE IF order_id \notin 1..Len(s.orders) THEN Raise(s, "Order not found")
    ELSE IF s.orders[order_id].status # "In Progress"
    THEN Raise(s, "Order must be in progress to assign delivery person")
    ELSE LET available_dps == get_available_delivery_persons(s) IN
    IF available_dps = <<>> THEN Return(s, None)
    ELSE LET dp == available_dps[1]
         IN  Return([s EXCEPT !.orders[order_id].delivery_person = Some(dp),
                              !.dpStatus[dp] = "On Delivery"], Some(dp))

\* Returns the id of the delivery person assigned, None when no one is available.
assign_delivery_person_to_order(s, order_id) ==
    IF order_id = 0 THEN Raise(s, "Order ID is required")
    ELSE IF order_id \notin 1..Len(s.orders) THEN Raise(s, "Order not found")
    ELSE IF s.orders[order_id].delivery_person # None
    THEN Raise(s, "Order already has a delivery person assigned")
    ELSE IF s.orders[order_id].status # "In Progress"
    THEN Raise(s, "Order must be in progress to assign delivery person")
    ELSE LET available_dps == get_available_delivery_persons(s) IN
    IF available_dps = <<>> THEN Return(s, None)
    ELSE LET dp == available_dps[1]
         IN  Return([s EXCEPT !.orders[order_id].delivery_person = Some(dp),
                              !.dpStatus[dp] = "On Delivery"], Some(dp))

\* QueryManager.assign_delivery_person_to_order under its @db_session.
AssignDeliveryPerson(order_id, moved) ==
    LET r == assign_delivery_person_to_order(Session, order_id)
    IN  /\ Commit(db_session(Session, r), moved)
        /\ last' = [Call("assign_delivery_person_to_order", r) EXCEPT !.order_id = order_id]
        /\ UNCHANGED <<now, applied, supplied, birthdate, txn>>

\* ---------------------------------------------------- update_delivery_person_status
update_delivery_person_status(s, delivery_person_id, new_status) ==
    IF delivery_person_id \notin DOMAIN s.dpStatus
    THEN Raise(s, "Delivery person not found")
    ELSE Return([s EXCEPT !.dpStatus[delivery_person_id] = new_status],
                Some(delivery_person_id))

UpdateDeliveryPersonStatus(delivery_person_id, new_status, moved) ==
    LET r == update_delivery_person_status(Session, delivery_person_id, new_status)
    IN  /\ Commit(db_session(Session, r), moved)
        /\ last' = [Call("update_delivery_person_status", r) EXCEPT
                      !.user_id = delivery_person_id]
        /\ UNCHANGED <<now, applied, supplied, birthdate, txn>>

\* ---------------------------------------------------------------- remove_user
\* user.delete() and commit(): the row leaves the delivery persons, and Pony
\* sets Order.delivery_person, the Optional side of delivered_orders, to None
\* on the orders that person was delivering.  Returns "False" for an unknown user.
remove_user(s, user_id) ==
    IF user_id \notin DOMAIN s.dpStatus THEN Return(s, Some("False"))
    ELSE Return([s EXCEPT
                   !.dpStatus = [d \in DOMAIN s.dpStatus \ {user_id} |-> s.dpStatus[d]],
                   !.dpRows = SelectSeq(s.dpRows, LAMBDA d : d # user_id),
                   !.orders = [o \in DOMAIN s.orders |->
                                 IF s.orders[o].delivery_person = Some(user_id)
                                 THEN [s.orders[o] EXCEPT !.delivery_person = None]
                                 ELSE s.orders[o]]], Some("True"))

\* QueryManager.remove_user under its @db_session, called for a delivery person
\* (who has placed no order of their own) or for a name no user has.
RemoveUser(user_id) ==
    LET r == remove_user(Session, user_id)
        after == db_session(Session, r)
    IN  /\ \A o \in DOMAIN orders : orders[o].user # user_id
        /\ orders' = after.orders
        /\ dpStatus' = after.dpStatus
        /\ dpRows' = after.dpRows
        /\ last' = [Call("remove_user", r) EXCEPT !.user_id = user_id]
        /\ UNCHANGED <<now, stock, ingredients, codes, loyalty_points, applied, supplied,
                       birthdate, txn>>

\* The clock advances between two calls.
Tick ==
    /\ now < MaxTime
    /\ now' = now + 1
    /\ last' = NoCall
    /\ UNCHANGED <<stock, orders, dpStatus, dpRows, ingredients, codes, loyalty_points, applied,
                   supplied, birthdate, txn>>

\* --------------------------------------------------------- process_loyalty_points
\* secrets.token_hex(8).upper(): a code no row has yet.
Tokens == <<"TOKEN1", "TOKEN2", "TOKEN3">>
Minted(cs) == {k \in 1..Len(Tokens) : Tokens[k] \in DOMAIN cs}
HasFreshToken(cs) == Cardinality(Minted(cs)) < Len(Tokens)
FreshToken(cs) == Tokens[Cardinality(Minted(cs)) + 1]

AddCode(cs, code, dc) == [c \in DOMAIN cs \cup {code} |-> IF c = code THEN dc ELSE cs[c]]

\* A faulty LoyaltyCode, for C5: the code gets the validity of a birthday code.
LoyaltyCodeForAWeek(t) ==
    [percentage |-> LoyaltyPercentage, valid_until |-> t + BirthdayDays,
     valid_from |-> Some(t), used |-> FALSE, used_by |-> None]

\* The DiscountCode process_loyalty_points creates at time t.
LoyaltyCode(t) ==
    [percentage |-> LoyaltyPercentage, valid_until |-> t + LoyaltyDays,
     valid_from |-> Some(t), used |-> FALSE, used_by |-> None]

\* Returns the code created, None when there is none.
process_loyalty_points(s, user_id, t, code) ==
    IF user_id = 0 THEN Raise(s, "User ID is required")
    ELSE IF user_id \notin Users(s) THEN Raise(s, "User not found")
    ELSE IF user_id \notin Customers THEN Return(s, None)
    ELSE LET s1 == [s EXCEPT !.loyalty_points[user_id] = @ + 1] IN
    IF s1.loyalty_points[user_id] >= LoyaltyThreshold
    THEN Return([s1 EXCEPT !.codes = AddCode(@, code, LoyaltyCode(t)),
                           !.loyalty_points[user_id] = 0], Some(code))
    ELSE Return(s1, None)

\* QueryManager.process_loyalty_points under its @db_session.
ProcessLoyaltyPoints(user_id) ==
    /\ HasFreshToken(codes)
    /\ LET r == process_loyalty_points(Session, user_id, now, FreshToken(codes))
       IN  /\ Commit(db_session(Session, r), FALSE)
           /\ last' = [Call("process_loyalty_points", r) EXCEPT !.user_id = user_id]
    /\ UNCHANGED <<now, applied, supplied, birthdate, txn>>

\* ---------------------------------------------------- process_birthday_discounts
\* Month and day of a day number: leap days aside, the day within the year.
MonthDay(day) == day % YearDays

\* A faulty BirthdayCustomers, for C17: every customer gets a code.
AllCustomers(bd, t) == Customers

\* The customers whose birthdate is set and has today's month and day.
BirthdayCustomers(bd, t) ==
    {c \in Customers : \E b \in bd[c] : MonthDay(b) = MonthDay(t)}

\* The DiscountCode process_birthday_discounts creates at time t.
BirthdayCode(t) ==
    [percentage |-> 0, valid_until |-> t + BirthdayDays,
     valid_from |-> Some(t), used |-> FALSE, used_by |-> None]

\* One DiscountCode with a new token for each of n customers.
RECURSIVE CreateBirthdayCodes(_, _, _)
CreateBirthdayCodes(cs, n, t) ==
    IF n = 0 THEN cs
    ELSE CreateBirthdayCodes(AddCode(cs, FreshToken(cs), BirthdayCode(t)), n - 1, t)

\* Returns the codes created.
process_birthday_discounts(s, bd, t) ==
    LET cs == CreateBirthdayCodes(s.codes, Cardinality(BirthdayCustomers(bd, t)), t)
    IN  Return([s EXCEPT !.codes = cs], Some(DOMAIN cs \ DOMAIN s.codes))

\* QueryManager.process_birthday_discounts under its @db_session.
ProcessBirthdayDiscounts ==
    /\ Cardinality(Minted(codes)) + Cardinality(BirthdayCustomers(birthdate, now)) <= Len(Tokens)
    /\ LET r == process_birthday_discounts(Session, birthdate, now)
       IN  /\ Commit(db_session(Session, r), FALSE)
           /\ last' = Call("process_birthday_discounts", r)
    /\ UNCHANGED <<now, applied, supplied, birthdate, txn>>

\* ------------------------------------------------------------------ update_user
\* update_user with a loyalty_points argument (the user is looked up by
\* username, which stands in one-to-one relation with the id). Returns
\* "False" for an unknown user, else "True"; only a Customer has the attribute.
update_user(s, user_id, points) ==
    IF user_id \notin Users(s) THEN Return(s, Some("False"))
    ELSE IF user_id \in Customers /\ points # None
    THEN IF \E n \in points : n < 0
         THEN Raise(s, "Loyalty points must be a non-negative integer")
         ELSE Return([s EXCEPT !.loyalty_points[user_id] = CHOOSE n \in points : TRUE],
                     Some("True"))
    ELSE Return(s, Some("True"))

\* QueryManager.update_user under its @db_session.
UpdateUser(user_id, points) ==
    LET r == update_user(Session, user_id, points)
    IN  /\ Commit(db_session(Session, r), FALSE)
        /\ last' = [Call("update_user", r) EXCEPT !.user_id = user_id]
        /\ UNCHANGED <<now, applied, supplied, birthdate, txn>>

\* update_user with a status argument: only a DeliveryPerson has the attribute.
update_user_status(s, user_id, status) ==
    IF user_id \notin Users(s) THEN Return(s, Some("False"))
    ELSE IF user_id \in DOMAIN s.dpStatus
    THEN Return([s EXCEPT !.dpStatus[user_id] = status], Some("True"))
    ELSE Return(s, Some("True"))

UpdateUserStatus(user_id, status) ==
    LET r == update_user_status(Session, user_id, status)
    IN  /\ Commit(db_session(Session, r), FALSE)
        /\ last' = [Call("update_user", r) EXCEPT !.user_id = user_id]
        /\ UNCHANGED <<now, applied, supplied, birthdate, txn>>

\* ------------------------------------------------------------- create_full_user
\* User.create_full_user(user_type="delivery_person"): the new delivery person
\* is Available.  A username already taken violates unique=True and the
\* session rolls back.
create_full_user(s, user_id) ==
    IF user_id \in Users(s) THEN Raise(s, "Error creating user")
    ELSE Return([s EXCEPT !.dpStatus = [d \in DOMAIN s.dpStatus \cup {user_id} |->
                                          IF d = user_id THEN "Available" ELSE s.dpStatus[d]],
                          !.dpRows = Append(s.dpRows, user_id)], Some(user_id))

\* POST /auth/signup for a delivery person.
CreateFullUser(user_id) ==
    LET r == create_full_user(Session, user_id)
        after == db_session(Session, r)
    IN  /\ dpStatus' = after.dpStatus
        /\ dpRows' = after.dpRows
        /\ last' = [Call("create_full_user", r) EXCEPT !.user_id = user_id]
        /\ UNCHANGED <<now, stock, orders, ingredients, codes, loyalty_points, applied,
                       supplied, birthdate, txn>>

\* ---------------------------------------------------------------------- pricing
\* round(x, 2) for an amount of n / d cents (n >= 0, d > 0): the nearest cent,
\* a tie going up.
Round2(n, d) == (2 * n + d) \div (2 * d)

\* sum(x.price for x in S)
RECURSIVE SumOver(_, _)
SumOver(S, price) ==
    IF S = {} THEN 0
    ELSE LET x == CHOOSE y \in S : TRUE IN price[x] + SumOver(S \ {x}, price)

\* A pizza price without the 9% VAT, for C14.
WithMarginOnly(ingredient_cost) == Round2(ingredient_cost * 140, 100)

\* round(ingredient_cost * 1.40 * 1.09, 2)
WithMarginAndVat(ingredient_cost) == Round2(ingredient_cost * 140 * 109, 10000)

\* QueryManager.calculate_pizza_price
calculate_pizza_price(s, pizza_id) ==
    IF pizza_id \notin Pizzas THEN Raise(s, "Pizza not found")
    ELSE IF s.ingredients[pizza_id] = {} THEN Return(s, Some(0))
    ELSE Return(s, Some(WithMarginAndVat(SumOver(s.ingredients[pizza_id], IngredientPrice))))

\* MenuView.calculate_pizza_price: the same without the test for no ingredients.
MenuView_calculate_pizza_price(s, pizza_id) ==
    IF pizza_id \notin Pizzas THEN Raise(s, "Pizza not found")
    ELSE Return(s, Some(WithMarginAndVat(SumOver(s.ingredients[pizza_id], IngredientPrice))))

\* One call of either, under its @db_session.
CalculatePizzaPrice(pizza_id, view) ==
    LET r == IF view THEN MenuView_calculate_pizza_price(Session, pizza_id)
             ELSE calculate_pizza_price(Session, pizza_id)
    IN  /\ Commit(db_session(Session, r), FALSE)
        /\ last' = [Call(IF view THEN "MenuView.calculate_pizza_price"
                         ELSE "calculate_pizza_price", r) EXCEPT !.pizza_id = pizza_id]
        /\ UNCHANGED <<now, applied, supplied, birthdate, txn>>

\* ------------------------------------------------------------ dietary filters
\* all(...) over the ingredient types of a pizza: true of no ingredients.
AllOfType(s, p, types) == \A i \in s.ingredients[p] : IngredientType[i] \in types

\* MenuView.get_pizza_dietary_type.
get_pizza_dietary_type(s, p) ==
    IF AllOfType(s, p, {"Vegan"}) THEN "Vegan"
    ELSE IF AllOfType(s, p, {"Vegan", "Vegetarian"}) THEN "Vegetarian"
    ELSE "Normal"

\* QueryManager.get_vegan_pizzas and get_vegetarian_pizzas: the select and
\* the filter both ask for a non-empty ingredient set.
get_vegan_pizzas(s) ==
    Return(s, Some({p \in Pizzas : s.ingredients[p] # {} /\ AllOfType(s, p, {"Vegan"})}))
get_vegetarian_pizzas(s) ==
    Return(s, Some({p \in Pizzas : s.ingredients[p] # {}
                                     /\ AllOfType(s, p, {"Vegan", "Vegetarian"})}))

\* MenuView.get_pizzas_with_prices_and_filters: id, price and dietary type
\* of the pizzas passing the filter.
DietaryFilter == {"all", "vegan", "vegetarian", "normal"}
get_pizzas_with_prices_and_filters(s, dietary_filter) ==
    LET pizzas == {p \in Pizzas :
                      \/ dietary_filter \notin {"vegan", "vegetarian"}
                      \/ dietary_filter = "vegan" /\ AllOfType(s, p, {"Vegan"})
                      \/ dietary_filter = "vegetarian"
                            /\ AllOfType(s, p, {"Vegan", "Vegetarian"})}
    IN  Return(s, Some({[id |-> p,
                         price |-> CHOOSE x \in MenuView_calculate_pizza_price(s, p).ret : TRUE,
                         dietary_type |-> get_pizza_dietary_type(s, p)] : p \in pizzas}))

GetVeganPizzas ==
    LET r == get_vegan_pizzas(Session)
    IN  /\ Commit(db_session(Session, r), FALSE)
        /\ last' = Call("get_vegan_pizzas", r)
        /\ UNCHANGED <<now, applied, supplied, birthdate, txn>>

GetVegetarianPizzas ==
    LET r == get_vegetarian_pizzas(Session)
    IN  /\ Commit(db_session(Session, r), FALSE)
        /\ last' = Call("get_vegetarian_pizzas", r)
        /\ UNCHANGED <<now, applied, supplied, birthdate, txn>>

\* The filter is recorded in the status field of the call.
GetPizzasWithPricesAndFilters(dietary_filter) ==
    LET r == get_pizzas_with_prices_and_filters(Session, dietary_filter)
    IN  /\ Commit(db_session(Session, r), FALSE)
        /\ last' = [Call("get_pizzas_with_prices_and_filters", r)
                       EXCEPT !.status = Some(dietary_filter)]
        /\ UNCHANGED <<now, applied, supplied, birthdate, txn>>

\* ------------------------------------------------------- get_order_confirmation
Minimum(S) == CHOOSE x \in S : \A y \in S : x <= y

\* calculate_pizza_price of a pizza an order line refers to.
UnitPrice(s, pizza_id) == CHOOSE price \in calculate_pizza_price(s, pizza_id).ret : TRUE

\* "Calculate pizza costs" and "Calculate extra costs": the undiscounted total.
RECURSIVE PizzaCosts(_, _)
PizzaCosts(s, lines) ==
    IF lines = <<>> THEN 0
    ELSE UnitPrice(s, lines[1][1]) * lines[1][2] + PizzaCosts(s, Tail(lines))

\* order.user.discount_code: the code whose used_by is the user, if any.
UserDiscountCode(s, user) == {c \in DOMAIN s.codes : s.codes[c].used_by = Some(user)}

\* A faulty CheapestDrink, for C16: every extra counts, Desserts too.
CheapestExtra(o) ==
    IF o.extras = {} THEN None ELSE Some(Minimum({ExtraPrice[x] : x \in o.extras}))

\* "Find cheapest pizza in order" and "Find cheapest drink in order": None
\* stands for float('inf').
CheapestPizza(s, o) ==
    IF o.lines = <<>> THEN None
    ELSE Some(Minimum({UnitPrice(s, o.lines[k][1]) : k \in 1..Len(o.lines)}))
CheapestDrink(o) ==
    LET drinks == {x \in o.extras : ExtraType[x] = "Drink"}
    IN  IF drinks = {} THEN None ELSE Some(Minimum({ExtraPrice[x] : x \in drinks}))

\* The discount_info of an order whose user holds the code dc.
DiscountInfo(s, o, dc, total) ==
    IF s.codes[dc].percentage = 0
    THEN [code |-> dc, type |-> "birthday",
          amount |-> Round2(SumOver(CheapestPizza(s, o), [x \in CheapestPizza(s, o) |-> x])
                            + SumOver(CheapestDrink(o), [x \in CheapestDrink(o) |-> x]), 1)]
    ELSE [code |-> dc, type |-> "loyalty", percentage |-> s.codes[dc].percentage,
          amount |-> Round2(total * s.codes[dc].percentage, 100)]

\* Returns None for an unknown order, else total_price and discount.
get_order_confirmation(s, order_id) ==
    IF order_id \notin 1..Len(s.orders) THEN Return(s, None)
    ELSE LET o == s.orders[order_id]
             total == PizzaCosts(s, o.lines) + SumOver(o.extras, ExtraPrice)
             held == UserDiscountCode(s, o.user)
             discount_info == {DiscountInfo(s, o, dc, total) : dc \in held}
         IN  Return(s, Some([total_price |-> total - SumOver(discount_info,
                                                 [d \in discount_info |-> d.amount]),
                             discount |-> discount_info]))

\* QueryManager.get_order_confirmation under its @db_session.
GetOrderConfirmation(order_id) ==
    LET r == get_order_confirmation(Session, order_id)
    IN  /\ Commit(db_session(Session, r), FALSE)
        /\ last' = [Call("get_order_confirmation", r) EXCEPT !.order_id = order_id]
        /\ UNCHANGED <<now, applied, supplied, birthdate, txn>>

\* --------------------------------------------------------- concurrent requests
\* Two requests for create_multiple_pizza_order, each in its own db_session
\* on the PostgreSQL store: the stock is read, checked, and written at
\* commit() by UPDATE ... WHERE id = ? AND stock = <the value read>.
Requests == {"A", "B"}
Idle == [pc |-> "idle", pizza_id |-> 0, quantity |-> 0, seen |-> 0, error |-> ""]

\* A faulty OptimisticCheck, for C22: the UPDATE does not compare the stock.
NoOptimisticCheck(seen, current) == TRUE

\* The WHERE clause of the UPDATE: the row still holds the value read.
OptimisticCheck(seen, current) == seen = current

\* Pizza.select: the request reads the committed stock.
TxnRead(r, pizza_id, quantity) ==
    /\ txn[r].pc = "idle"
    /\ txn' = [txn EXCEPT ![r] = [pc |-> "read", pizza_id |-> pizza_id, quantity |-> quantity,
                                  seen |-> stock[pizza_id], error |-> ""]]
    /\ last' = NoCall
    /\ UNCHANGED <<now, stock, orders, dpStatus, dpRows, ingredients, codes, loyalty_points,
                   applied, supplied, birthdate>>

\* "Validate all pizzas exist and check stock", on the value read.
TxnCheck(r) ==
    /\ txn[r].pc = "read"
    /\ txn' = [txn EXCEPT ![r] =
                 IF CheckLine([Session EXCEPT !.stock[txn[r].pizza_id] = txn[r].seen],
                              <<txn[r].pizza_id, txn[r].quantity>>) # ""
                 THEN [@ EXCEPT !.pc = "aborted",
                                !.error = CheckLine([Session EXCEPT
                                                        !.stock[txn[r].pizza_id] = txn[r].seen],
                                                    <<txn[r].pizza_id, txn[r].quantity>>)]
                 ELSE [@ EXCEPT !.pc = "checked"]]
    /\ last' = NoCall
    /\ UNCHANGED <<now, stock, orders, dpStatus, dpRows, ingredients, codes, loyalty_points,
                   applied, supplied, birthdate>>

\* commit(): the order, its line and the stock computed from the value read
\* are written if the optimistic check passes; otherwise the session raises
\* OptimisticCheckError and rolls back.
TxnCommit(r) ==
    /\ txn[r].pc = "checked"
    /\ IF OptimisticCheck(txn[r].seen, stock[txn[r].pizza_id])
       THEN LET view == [Session EXCEPT !.stock[txn[r].pizza_id] = txn[r].seen]
                res == create_multiple_pizza_order(view, 1,
                           <<<<txn[r].pizza_id, txn[r].quantity>>>>, <<>>, "", "", 0, now)
            IN  /\ Commit(db_session(Session, res), FALSE)
                /\ last' = [Call("create_multiple_pizza_order", res) EXCEPT
                              !.user_id = 1,
                              !.pizza_quantities = <<<<txn[r].pizza_id, txn[r].quantity>>>>]
                /\ supplied' = Supplied(res, "")
                /\ txn' = [txn EXCEPT ![r].pc = "committed"]
       ELSE /\ txn' = [txn EXCEPT ![r].pc = "aborted", ![r].error = "OptimisticCheckError"]
            /\ last' = NoCall
            /\ UNCHANGED <<stock, orders, dpStatus, dpRows, ingredients, codes, loyalty_points,
                           supplied>>
    /\ UNCHANGED <<now, applied, birthdate>>

\* assign_delivery_person_to_order, first half: the request reads the order and
\* the delivery persons (DeliveryPerson.select) and validates the order.
TxnAssignRead(r, order_id) ==
    /\ txn[r].pc = "idle"
    /\ LET res == assign_delivery_person_to_order(Session, order_id)
       IN  txn' = [txn EXCEPT ![r] =
                     [pc |-> IF res.error = "" THEN "read" ELSE "aborted",
                      order_id |-> order_id,
                      available |-> get_available_delivery_persons(Session),
                      error |-> res.error]]
    /\ last' = NoCall
    /\ UNCHANGED <<now, stock, orders, dpStatus, dpRows, ingredients, codes, loyalty_points,
                   applied, supplied, birthdate>>

\* Second half: None when the request saw no one Available; otherwise
\* order.delivery_person and dp.status are written at commit(), each UPDATE
\* checking that its row still holds what the request read.
TxnAssignCommit(r) ==
    /\ txn[r].pc = "read"
    /\ IF txn[r].available = <<>>
       THEN /\ txn' = [txn EXCEPT ![r].pc = "committed"]
            /\ last' = [NoCall EXCEPT !.op = "assign_delivery_person_to_order",
                                      !.order_id = txn[r].order_id]
            /\ UNCHANGED <<orders, dpStatus>>
       ELSE LET dp == txn[r].available[1]
                o == txn[r].order_id
            IN  IF /\ OptimisticCheck("Available", dpStatus[dp])
                   /\ OptimisticCheck(None, orders[o].delivery_person)
                THEN /\ orders' = [orders EXCEPT ![o].delivery_person = Some(dp)]
                     /\ dpStatus' = [dpStatus EXCEPT ![dp] = "On Delivery"]
                     /\ txn' = [txn EXCEPT ![r].pc = "committed"]
                     /\ last' = [NoCall EXCEPT !.op = "assign_delivery_person_to_order",
                                               !.order_id = o, !.ret = Some(dp)]
                ELSE /\ txn' = [txn EXCEPT ![r].pc = "aborted",
                                           ![r].error = "OptimisticCheckError"]
                     /\ last' = [NoCall EXCEPT !.op = "assign_delivery_person_to_order",
                                               !.order_id = o,
                                               !.error = "OptimisticCheckError"]
                     /\ UNCHANGED <<orders, dpStatus>>
    /\ UNCHANGED <<now, stock, dpRows, ingredients, codes, loyalty_points, applied, supplied,
                   birthdate>>

\* ------------------------------------------------------------------ endpoints
\* The messages in which the handlers find "not found", "pizza", "extra" and
\* "user" (case-insensitively).
SaysNotFound == {"Pizza not found", "User not found", "Extra not found", "Order not found",
                 "Delivery person not found", "Discount code not found"}
SaysPizza == {"Pizza not found", "At least one pizza is required", "Quantity must be positive",
              "Insufficient stock"}
SaysExtra == {"Extra not found"}
SaysUser  == {"User not found", "Postal code must be provided"}

\* "except ValueError" of order_multiple_pizzas: the status by the message.
OrderErrorStatus(error) ==
    IF error \in SaysNotFound
    THEN IF error \in SaysPizza THEN 404
         ELSE IF error \in SaysExtra THEN 404
         ELSE IF error \in SaysUser THEN 401
         ELSE 400
    ELSE 400

\* The response after the order is created: DiscountInfo reads
\* discount["percentage"], a key the birthday discount does not have.
OrderResponseStatus(s, order_id) ==
    IF \E conf \in get_order_confirmation(s, order_id).ret :
          \E d \in conf.discount : d.type = "birthday"
    THEN 500 ELSE 201

\* POST /order-multiple-pizzas/{user_id} (public) and POST
\* /order-multiple-pizzas (secured, where the customer comes from the token).
OrderMultiplePizzas(public, user_id, pizza_quantities, extra_ids, discount_code, rnd, moved) ==
    LET r == IF pizza_quantities = <<>> THEN Raise(Session, "At least one pizza must be ordered")
             ELSE IF public /\ user_id \notin Customers THEN Raise(Session, "Customer not found")
             ELSE create_multiple_pizza_order(Session, user_id, pizza_quantities, extra_ids,
                                              discount_code, "", rnd, now)
        status_code == IF pizza_quantities = <<>> THEN 400
                       ELSE IF public /\ user_id \notin Customers THEN 404
                       ELSE IF r.error = "CacheIndexError" THEN 500
                       ELSE IF r.error # "" THEN OrderErrorStatus(r.error)
                       ELSE OrderResponseStatus(r.s, Len(r.s.orders))
    IN  /\ public \/ user_id \in Customers
        /\ r.error # "" \/ Len(orders) < MaxOrders
        /\ Commit(db_session(Session, r), moved)
        /\ last' = [Call(IF public THEN "POST /order-multiple-pizzas/{user_id}"
                                   ELSE "POST /order-multiple-pizzas", r) EXCEPT
                      !.user_id = user_id, !.pizza_quantities = pizza_quantities,
                      !.extra_ids = extra_ids, !.discount_code = discount_code,
                      !.status_code = status_code]
        /\ applied' = Applied(r, discount_code)
        /\ supplied' = Supplied(r, discount_code)
        /\ UNCHANGED <<now, birthdate, txn>>

\* POST /orders/{order_id}/assign-delivery: 404 for a None result, 400 for
\* every ValueError.
AssignDeliveryEndpoint(order_id, moved) ==
    LET r == assign_delivery_person_to_order(Session, order_id)
    IN  /\ Commit(db_session(Session, r), moved)
        /\ last' = [Call("POST /orders/{order_id}/assign-delivery", r) EXCEPT
                      !.order_id = order_id,
                      !.status_code = IF r.error # "" THEN 400
                                      ELSE IF r.ret = None THEN 404 ELSE 200]
        /\ UNCHANGED <<now, applied, supplied, birthdate, txn>>

\* ------------------------------------------------------------- authentication
\* What a request carries as its bearer token: nothing, a string that does
\* not decode, or a signed payload with a subject (None when "sub" is absent)
\* and an expiry time.
NoToken == [kind |-> "missing", sub |-> None, exp |-> 0]
Garbage == [kind |-> "garbage", sub |-> None, exp |-> 0]
Signed(sub, exp) == [kind |-> "signed", sub |-> sub, exp |-> exp]

\* verify_token: the HTTPException it raises, 0 when it returns the payload.
verify_token(token, t) ==
    IF token.kind = "garbage" THEN 401           \* jwt.InvalidTokenError
    ELSE IF token.exp < t THEN 401               \* jwt.ExpiredSignatureError
    ELSE IF token.sub = None THEN 401
    ELSE 0

\* Whether "except Exception" of the handler catches the HTTPException of
\* verify_token: refresh_token has no "except HTTPException: raise" before it.
HandlerCatches(endpoint) == endpoint = "/auth/refresh"

AuthEndpoints == {"/auth/me", "/auth/refresh", "/v1/info", "/v1/order-multiple-pizzas"}

\* The status the authentication stage answers with, 0 when it lets the
\* request through. OAuth2PasswordBearer answers a missing header itself.
AuthStatus(s, endpoint, token, t) ==
    IF token.kind = "missing" THEN 401
    ELSE IF verify_token(token, t) # 0
    THEN IF HandlerCatches(endpoint) THEN 500 ELSE verify_token(token, t)
    ELSE IF endpoint = "/auth/refresh" THEN 0
    ELSE IF endpoint = "/v1/order-multiple-pizzas"
    THEN IF token.sub \subseteq Customers THEN 0 ELSE 403        \* get_current_customer
    ELSE IF token.sub \subseteq Users(s) THEN 0 ELSE 401

\* /auth/me, /auth/refresh and /v1/info; refresh answers with a new token
\* for the same subject, valid for TokenLifetime.
AuthRequest(endpoint, token) ==
    LET status_code == AuthStatus(Session, endpoint, token, now)
    IN  /\ endpoint \in AuthEndpoints \ {"/v1/order-multiple-pizzas"}
        /\ last' = [NoCall EXCEPT
                      !.op = endpoint, !.token = Some(token),
                      !.status_code = IF status_code = 0 THEN 200 ELSE status_code,
                      !.ret = IF status_code = 0 /\ endpoint = "/auth/refresh"
                              THEN Some(Signed(token.sub, now + TokenLifetime)) ELSE None]
        /\ UNCHANGED <<now, stock, orders, dpStatus, dpRows, ingredients, codes,
                       loyalty_points, applied, supplied, birthdate, txn>>

\* POST /v1/order-multiple-pizzas: get_current_customer, then the handler.
SecuredOrderRequest(token, pizza_quantities, rnd, moved) ==
    LET status_code == AuthStatus(Session, "/v1/order-multiple-pizzas", token, now)
    IN  IF status_code = 0
        THEN /\ \E u \in token.sub :
                   OrderMultiplePizzas(FALSE, u, pizza_quantities, <<>>, "", rnd, moved)
        ELSE /\ last' = [NoCall EXCEPT !.op = "/v1/order-multiple-pizzas",
                                       !.token = Some(token), !.status_code = status_code]
             /\ UNCHANGED <<now, stock, orders, dpStatus, dpRows, ingredients, codes,
                            loyalty_points, applied, supplied, birthdate, txn>>

\* ------------------------------------------------------------ initial states
\* Codes made with DiscountCodeManager.create: a percentage code and a
\* birthday code valid from day 1 to day MaxTime - 1, and a used percentage code.
SeedCode(pct, used) ==
    [percentage |-> pct, valid_from |-> Some(1), valid_until |-> MaxTime - 1,
     used |-> used, used_by |-> None]
SeedCodes ==
    [c \in {"LOYAL10", "BDAY", "USED10"} |->
        IF c = "LOYAL10" THEN SeedCode(LoyaltyPercentage, FALSE)
        ELSE IF c = "BDAY" THEN SeedCode(0, FALSE)
        ELSE SeedCode(LoyaltyPercentage, TRUE)]

\* The rows of a set of delivery persons in insertion (id) order.
RECURSIVE RowsOf(_)
RowsOf(D) ==
    IF D = {} THEN <<>>
    ELSE LET m == CHOOSE d \in D : \A e \in D : d <= e
         IN  <<m>> \o RowsOf(D \ {m})

\* A freshly populated store: delivery persons are created Available.
BaseStore ==
    [stock |-> [p \in Pizzas |-> IF p = 1 THEN MaxStock ELSE DefaultStock],
     orders |-> <<>>,
     dpStatus |-> [d \in DeliveryPersons |-> "Available"],
     dpRows |-> RowsOf(DeliveryPersons),
     ingredients |-> [p \in Pizzas |-> IF p = 1 THEN {1, 2} ELSE {3}],
     codes |-> SeedCodes,
     loyalty_points |-> [c \in Customers |-> 0]]

\* The store after create_order (no delivery person given) and then
\* create_multiple_pizza_order, each for one pizza.
LifecycleStore ==
    LET r1 == create_order(BaseStore, 1, <<<<1, 1>>>>, <<>>, "", "Pending", None, "", 0)
        r2 == create_multiple_pizza_order(r1.s, 2, <<<<2, 1>>>>, <<>>, "", "", 0, 0)
    IN  r2.s

LoadStore(store) ==
    /\ now = 0
    /\ stock = store.stock
    /\ orders = store.orders
    /\ dpStatus = store.dpStatus
    /\ dpRows = store.dpRows
    /\ ingredients = store.ingredients
    /\ codes = store.codes
    /\ last = NoCall
    /\ applied = {}
    /\ supplied = [o \in DOMAIN store.orders |-> ""]
    /\ txn = [r \in Requests |-> Idle]

\* Customers registered without a birthdate.
Load(store) ==
    /\ LoadStore(store)
    /\ birthdate = [c \in Customers |-> None]

Init ==
    /\ Load(BaseStore)
    /\ loyalty_points = BaseStore.loyalty_points

\* ------------------------------------------------------------------- inputs
\* The picks random.choice can make, and whether the updated row moves: only
\* the choices the call can observe.
RandomPicks ==
    IF get_available_delivery_persons(Session) = <<>> /\ DOMAIN dpStatus # {}
    THEN DOMAIN dpStatus ELSE {0}
RowMoves ==
    IF get_available_delivery_persons(Session) # <<>> THEN BOOLEAN ELSE {FALSE}

\* Calls of create_multiple_pizza_order with arguments drawn from the given sets.
OrderCalls(U, PQ, EX, DC) ==
    \E u \in U, pq \in PQ, ex \in EX, c \in DC, rnd \in RandomPicks, moved \in RowMoves :
        CreateMultiplePizzaOrder(u, pq, ex, c, "", rnd, moved)

\* Calls of create_order: status Pending, no delivery person.
LegacyOrderCalls(U, PQ, EX, DC) ==
    \E u \in U, pq \in PQ, ex \in EX, c \in DC :
        CreateOrder(u, pq, ex, c, "Pending", None)

\* Stock: one known customer and an unknown user; every single line over the
\* known pizzas 1, 2 and the unknown pizza 3, and pairs of lines.
UserIdInputs   == {1, 9}
PizzaIdInputs  == {1, 2, 3}
QuantityInputs == 0..(MaxStock + 1)
LineInputs     == PizzaIdInputs \X QuantityInputs
PairLines      == {<<1, 1>>, <<1, MaxStock>>, <<2, DefaultStock + 1>>, <<3, 1>>}
PizzaQuantityInputs ==
    {<<>>} \cup {<<l>> : l \in LineInputs} \cup {<<l, m>> : l \in PairLines, m \in PairLines}

Next ==
    \/ OrderCalls(UserIdInputs, PizzaQuantityInputs, {<<>>}, {""})
    \/ LegacyOrderCalls({1}, {<<<<1, 1>>>>}, {<<>>}, {""})

Spec == Init /\ [][Next]_vars

\* Discounts: customer 1 orders one pizza with a known and an unknown extra,
\* every seeded code and an unknown one, both customers order with the two
\* unused codes, while the clock runs; the delivery persons' rows stay in
\* insertion order.
DiscountUsers  == {1, 2}
DiscountOrders == {<<<<1, 1>>>>}
ExtraIdInputs  == {<<>>, <<1, 9>>}
CodeInputs     == {"", "LOYAL10", "BDAY", "USED10", "NOPE"}
SharedCodeInputs == {"LOYAL10", "BDAY"}     \* the codes both customers try

NextDiscount ==
    \/ \E pq \in DiscountOrders, ex \in ExtraIdInputs, c \in CodeInputs, rnd \in RandomPicks :
          CreateMultiplePizzaOrder(1, pq, ex, c, "", rnd, FALSE)
    \/ \E u \in DiscountUsers, pq \in DiscountOrders, c \in SharedCodeInputs,
          rnd \in RandomPicks :
          CreateMultiplePizzaOrder(u, pq, <<>>, c, "", rnd, FALSE)
    \/ LegacyOrderCalls({1}, DiscountOrders, {<<>>}, CodeInputs)
    \/ Tick

SpecDiscount == Init /\ [][NextDiscount]_vars

\* Lifecycle: two existing orders, one unassigned, and two delivery persons.
OrderIdInputs == {1, 2, 7}
StatusInputs  == {None} \cup {Some(st) : st \in OrderStatus}

InitLifecycle ==
    /\ Load(LifecycleStore)
    /\ loyalty_points = LifecycleStore.loyalty_points

NextLifecycle ==
    \/ \E o \in OrderIdInputs, st \in StatusInputs : UpdateOrder(o, st, None, None, None)
    \/ \E o \in OrderIdInputs, moved \in BOOLEAN : AssignDeliveryPerson(o, moved)
    \/ \E d \in DeliveryPersons, st \in DeliveryStatus, moved \in BOOLEAN :
          UpdateDeliveryPersonStatus(d, st, moved)

SpecLifecycle == InitLifecycle /\ [][NextLifecycle]_vars

\* Reassignment: update_order with and without a status and a known or
\* unknown delivery person, while delivery persons change status.
DeliveryPersonIdInputs == {None, Some(4), Some(9)}
FinalStatusInputs == {None, Some("Delivered"), Some("Cancelled")}

NextReassign ==
    \/ \E o \in OrderIdInputs, st \in FinalStatusInputs, d \in DeliveryPersonIdInputs :
          UpdateOrder(o, st, None, d, None)
    \/ \E d \in DeliveryPersons, st \in DeliveryStatus, moved \in BOOLEAN :
          UpdateDeliveryPersonStatus(d, st, moved)

SpecReassign == InitLifecycle /\ [][NextReassign]_vars

\* Loyalty: customers seeded with no points and with two points to go.
LoyaltySeeds == {0, LoyaltyThreshold - 2}
LoyaltyUsers == {0, 1, 2, 3, 9}

InitLoyalty ==
    /\ Load(BaseStore)
    /\ loyalty_points \in [Customers -> LoyaltySeeds]

NextLoyalty ==
    \/ \E u \in LoyaltyUsers : ProcessLoyaltyPoints(u)
    \/ Tick

SpecLoyalty == InitLoyalty /\ [][NextLoyalty]_vars

\* Delivery: every set of delivery persons, none included, in every status.
DeliveryStores ==
    UNION {{[BaseStore EXCEPT !.dpStatus = st, !.dpRows = RowsOf(D)] :
               st \in [D -> DeliveryStatus]} : D \in SUBSET DeliveryPersons}

InitDelivery ==
    \E store \in DeliveryStores :
        /\ Load(store)
        /\ loyalty_points = store.loyalty_points

NextDelivery ==
    \/ OrderCalls({1}, {<<<<1, 1>>>>}, {<<>>}, {""})
    \/ \E d \in DeliveryPersons, st \in DeliveryStatus, moved \in BOOLEAN :
          UpdateDeliveryPersonStatus(d, st, moved)

SpecDelivery == InitDelivery /\ [][NextDelivery]_vars

\* Updates: every status, with and without a delivered_at and a postal code
\* (a blank one makes the update fail), while the clock runs.
DeliveredAtInputs == {None, Some(0)}
PostalCodeInputs  == {None, Some(" ")}

NextUpdate ==
    \/ \E o \in OrderIdInputs, st \in StatusInputs, da \in DeliveredAtInputs,
          pc \in PostalCodeInputs : UpdateOrder(o, st, da, None, pc)
    \/ Tick

SpecUpdate == InitLifecycle /\ [][NextUpdate]_vars

\* Points: customers created with the default of 0 points, then update_user
\* with a loyalty_points argument and process_loyalty_points.
PointsInputs == {None, Some(-1), Some(0), Some(LoyaltyThreshold - 1), Some(LoyaltyThreshold + 2)}

NextPoints ==
    \/ \E u \in LoyaltyUsers, n \in PointsInputs : UpdateUser(u, n)
    \/ \E u \in LoyaltyUsers : ProcessLoyaltyPoints(u)

SpecPoints == Init /\ [][NextPoints]_vars

\* Menu: every assignment of ingredient sets to the pizzas, the empty set
\* included; prices are asked for between orders.
MenuStores ==
    {[BaseStore EXCEPT !.ingredients = ing] : ing \in [Pizzas -> SUBSET Ingredients]}

InitMenu ==
    \E store \in MenuStores :
        /\ Load(store)
        /\ loyalty_points = store.loyalty_points

NextMenu ==
    \/ \E p \in PizzaIdInputs, view \in BOOLEAN : CalculatePizzaPrice(p, view)
    \/ GetVeganPizzas
    \/ GetVegetarianPizzas
    \/ \E f \in DietaryFilter : GetPizzasWithPricesAndFilters(f)
    \/ OrderCalls({1}, {<<<<1, 1>>>>, <<<<2, 1>>>>}, {<<>>}, {""})

SpecMenu == InitMenu /\ [][NextMenu]_vars

\* Confirmations: one customer orders two of the 2.29 pizza or one of each
\* pizza, with the 2.00 drink, the dessert or both drinks and the dessert,
\* with and without a percentage or birthday code, and asks for confirmations.
PricingOrders == {<<<<1, 2>>>>, <<<<1, 1>>, <<2, 1>>>>}
PricingExtras == {<<1>>, <<2>>, <<1, 2, 3>>}
PricingCodes  == {"", "LOYAL10", "BDAY"}

\* No delivery person is registered, so every order goes unassigned; the
\* codes are valid from the start.
PricingStore ==
    [BaseStore EXCEPT !.dpStatus = <<>>, !.dpRows = <<>>,
                      !.codes = [c \in DOMAIN SeedCodes |->
                                    [SeedCodes[c] EXCEPT !.valid_from = Some(0)]]]

InitPricing ==
    /\ Load(PricingStore)
    /\ loyalty_points = PricingStore.loyalty_points

NextPricing ==
    \/ OrderCalls({1}, PricingOrders, PricingExtras, PricingCodes)
    \/ LegacyOrderCalls({1}, {<<<<1, 2>>>>}, {<<1>>}, {"LOYAL10", "BDAY"})
    \/ \E o \in OrderIdInputs : GetOrderConfirmation(o)

SpecPricing == InitPricing /\ [][NextPricing]_vars

\* Birthdays: each customer has no birthdate or was born a year before day 0
\* or day 1; the sweep runs any number of times a day while the days pass and
\* customer 1 collects loyalty points.
BirthdateInputs == {None, Some(0 - YearDays), Some(1 - YearDays)}

InitBirthday ==
    /\ LoadStore(BaseStore)
    /\ loyalty_points = [c \in Customers |-> LoyaltyThreshold - 2]
    /\ birthdate \in [Customers -> BirthdateInputs]

NextBirthday ==
    \/ ProcessBirthdayDiscounts
    \/ ProcessLoyaltyPoints(1)
    \/ Tick

SpecBirthday == InitBirthday /\ [][NextBirthday]_vars

\* Endpoints: a customer and an unknown user order a known pizza, an unknown
\* pizza, too many, none or nothing at the public endpoint, the customer
\* orders with a known or unknown extra and code, and orders at the secured
\* endpoint; orders are moved on with update_order and delivery persons are
\* assigned.
EndpointOrders == {<<>>, <<<<1, 1>>>>, <<<<3, 1>>>>, <<<<1, MaxStock + 1>>>>, <<<<1, 0>>>>}
EndpointCodes  == {"", "NOPE", "USED10", "BDAY"}

\* The store after one create_order without a delivery person.
EndpointStore ==
    create_order(BaseStore, 1, <<<<1, 1>>>>, <<>>, "", "Pending", None, "", 0).s

InitEndpoints ==
    /\ Load(EndpointStore)
    /\ loyalty_points = EndpointStore.loyalty_points

NextEndpoints ==
    \/ \E u \in UserIdInputs, pq \in EndpointOrders, rnd \in RandomPicks, moved \in RowMoves :
          OrderMultiplePizzas(TRUE, u, pq, <<>>, "", rnd, moved)
    \/ \E ex \in ExtraIdInputs, c \in EndpointCodes, rnd \in RandomPicks, moved \in RowMoves :
          OrderMultiplePizzas(TRUE, 1, <<<<1, 1>>>>, ex, c, rnd, moved)
    \/ \E pq \in EndpointOrders, c \in {"", "BDAY"}, rnd \in RandomPicks, moved \in RowMoves :
          OrderMultiplePizzas(FALSE, 1, pq, <<>>, c, rnd, moved)
    \/ \E o \in OrderIdInputs, moved \in RowMoves : AssignDeliveryEndpoint(o, moved)
    \/ \E o \in OrderIdInputs : UpdateOrder(o, Some("In Progress"), None, None, None)
    \/ Tick

SpecEndpoints == InitEndpoints /\ [][NextEndpoints]_vars

\* Concurrency: the two requests ask for one of the pizzas in any quantity
\* up to one more than the stock, and take their steps in any order.
NextConcurrent ==
    \/ \E r \in Requests, p \in Pizzas, q \in 1..(MaxStock + 1) : TxnRead(r, p, q)
    \/ \E r \in Requests : TxnCheck(r)
    \/ \E r \in Requests : TxnCommit(r)

SpecConcurrent == InitPricing /\ [][NextConcurrent]_vars

\* Authentication: requests with no token, an undecodable one, and signed
\* tokens of a customer, a delivery person, an unknown user and no subject,
\* expiring at time 0 or at the end, while the clock runs.
TokenInputs ==
    {NoToken, Garbage}
    \cup {Signed(sub, exp) : sub \in {None, Some(1), Some(3), Some(9)}, exp \in {0, MaxTime}}

NextAuth ==
    \/ \E ep \in AuthEndpoints \ {"/v1/order-multiple-pizzas"}, tok \in TokenInputs :
          AuthRequest(ep, tok)
    \/ \E tok \in TokenInputs, rnd \in RandomPicks, moved \in RowMoves :
          SecuredOrderRequest(tok, <<<<1, 1>>>>, rnd, moved)
    \/ Tick

SpecAuth == Init /\ [][NextAuth]_vars

\* Failing updates: update_order for a known and an unknown order, with and
\* without a final status, a delivered_at, a known or unknown delivery person
\* and an empty, blank or proper postal code.
UpdatePostalInputs == {None, Some(""), Some(" "), Some("2022ZZ")}

NextFailing ==
    \E o \in {1, 7}, st \in FinalStatusInputs, da \in DeliveredAtInputs,
       d \in DeliveryPersonIdInputs, pc \in UpdatePostalInputs :
       UpdateOrder(o, st, da, d, pc)

SpecFailing == InitLifecycle /\ [][NextFailing]_vars

\* Assignment over an order's life: orders are created while delivery persons
\* exist, updated (status, delivery person), offered for assignment, and
\* delivery persons are removed.
NextAssigned ==
    \/ OrderCalls({1}, {<<<<1, 1>>>>}, {<<>>}, {""})
    \/ \E o \in OrderIdInputs, st \in StatusInputs, d \in DeliveryPersonIdInputs :
          UpdateOrder(o, st, None, d, None)
    \/ \E o \in OrderIdInputs, moved \in BOOLEAN : AssignDeliveryPerson(o, moved)
    \/ \E u \in DeliveryPersons \cup {9} : RemoveUser(u)

SpecAssigned == Init /\ [][NextAssigned]_vars

\* Availability: delivery persons register and change status while orders are
\* created, moved on and offered for assignment and the discount jobs run.
InitAvailability ==
    \E store \in {s \in DeliveryStores : DOMAIN s.dpStatus \in {{}, {3}}} :
        /\ LoadStore(store)
        /\ loyalty_points = [c \in Customers |-> IF c = 1 THEN LoyaltyThreshold ELSE 0]
        /\ birthdate = [c \in Customers |-> IF c = 1 THEN Some(0) ELSE None]

NextAvailability ==
    \/ OrderCalls({1}, {<<<<1, 1>>>>}, {<<>>}, {""})
    \/ \E o \in {1, 2}, st \in {Some("In Progress"), Some("Delivered")} :
          UpdateOrder(o, st, None, None, None)
    \/ \E o \in {1, 2} : AssignDeliveryPerson(o, FALSE)
    \/ ProcessLoyaltyPoints(1)
    \/ ProcessBirthdayDiscounts
    \/ \E st \in DeliveryStatus : UpdateDeliveryPersonStatus(3, st, FALSE)
    \/ \E u \in {1, 3}, st \in DeliveryStatus : UpdateUserStatus(u, st)
    \/ CreateFullUser(3)

SpecAvailability == InitAvailability /\ [][NextAvailability]_vars

\* Concurrent assignment: two In Progress orders without a delivery person,
\* delivery person 3 Available and delivery person 4 in any status.
AssignStore(st) ==
    LET base == [BaseStore EXCEPT !.dpStatus[4] = st]
        r1 == create_order(base, 1, <<<<1, 1>>>>, <<>>, "", "In Progress", None, "", 0)
        r2 == create_order(r1.s, 2, <<<<2, 1>>>>, <<>>, "", "In Progress", None, "", 0)
    IN  r2.s

InitAssigning ==
    \E st \in DeliveryStatus :
        /\ Load(AssignStore(st))
        /\ loyalty_points = AssignStore(st).loyalty_points

NextAssigning ==
    \/ \E r \in Requests, o \in OrderIdInputs : TxnAssignRead(r, o)
    \/ \E r \in Requests : TxnAssignCommit(r)

SpecAssigning == InitAssigning /\ [][NextAssigning]_vars

\* =================================================================== claims
\* The error kinds of the specification, by the messages the code raises.
InsufficientStock == {"Insufficient stock"}
InvalidDiscount   == {"Invalid or expired discount code"}
StateConflict     == {"Order already has a delivery person assigned",
                      "Order must be in progress to assign delivery person"}
CreationOps       == {"create_multiple_pizza_order", "create_order"}

\* ----------------------------------------------------------------------- C1
\* A line that requests more than the pizza's current stock.
Over(line) == line[1] \in Pizzas /\ line[2] > stock[line[1]]
HasOverLine(pq) == \E i \in 1..Len(pq) : Over(pq[i])
\* Some over-asking line is preceded only by lines of known pizzas and
\* positive quantities.
OverLineComesFirst(pq) ==
    \E i \in 1..Len(pq) :
        /\ Over(pq[i])
        /\ \A j \in 1..(i - 1) : pq[j][1] \in Pizzas /\ pq[j][2] > 0

\* C1 as stated: every pizza's stock stays >= 0, and a
\* create_multiple_pizza_order call in which some line requests more than
\* that pizza's current stock fails with InsufficientStock and leaves every
\* pizza's stock unchanged.
C1_Stated ==
    /\ [](\A p \in Pizzas : stock[p] >= 0)
    /\ [][(last'.op = "create_multiple_pizza_order" /\ HasOverLine(last'.pizza_quantities))
            => (last'.error \in InsufficientStock /\ stock' = stock)]_vars

\* C1, amended: every pizza's stock stays >= 0, and a call in which some
\* line requests more than that pizza's current stock fails and leaves every
\* pizza's stock unchanged; the error is InsufficientStock when the user
\* exists and no line before the over-asking one names an unknown pizza or a
\* non-positive quantity (those checks come first and raise their own error).
C1_StockNeverNegative ==
    /\ [](\A p \in Pizzas : stock[p] >= 0)
    /\ [][(last'.op = "create_multiple_pizza_order" /\ HasOverLine(last'.pizza_quantities))
            => /\ last'.error # ""
               /\ stock' = stock
               /\ (last'.user_id \in Users(Session) /\ OverLineComesFirst(last'.pizza_quantities))
                    => last'.error \in InsufficientStock]_vars

\* A pizza is sold out and a call asking for more of it was refused.
C1_Witness ==
    /\ last.op = "create_multiple_pizza_order"
    /\ last.error \in InsufficientStock
    /\ \E i \in 1..Len(last.pizza_quantities) :
          Over(last.pizza_quantities[i]) /\ stock[last.pizza_quantities[i][1]] = 0

\* ----------------------------------------------------------------------- C2
\* C2 as stated: once an order creation has succeeded with a discount code,
\* every later order creation supplying that code fails (with
\* InvalidDiscount): no code is applied twice.
C2_Stated ==
    [][(last'.op \in CreationOps /\ last'.discount_code \in applied)
         => last'.error # ""]_vars

\* ----------------------------------------------------------------------- C3
AllowedTransitions ==
    {<<"Pending", "In Progress">>, <<"In Progress", "Delivered">>,
     <<"Pending", "Cancelled">>, <<"In Progress", "Cancelled">>}

\* C3 as stated: an order's status changes only along Pending -> In Progress,
\* In Progress -> Delivered, Pending -> Cancelled, In Progress -> Cancelled;
\* an update_order asking for any other change is rejected and leaves the
\* order unchanged.
C3_Stated ==
    [][/\ \A o \in DOMAIN orders \cap DOMAIN orders' :
             orders'[o].status # orders[o].status
                => <<orders[o].status, orders'[o].status>> \in AllowedTransitions
       /\ (/\ last'.op = "update_order"
           /\ last'.order_id \in DOMAIN orders
           /\ \E st \in last'.status :
                 /\ st # orders[last'.order_id].status
                 /\ <<orders[last'.order_id].status, st>> \notin AllowedTransitions)
            => (last'.error # "" /\ orders' = orders)]_vars

\* ----------------------------------------------------------------------- C4
\* The quantity of pizza p a list of lines asks for.
RECURSIVE Requested(_, _)
Requested(pq, p) ==
    IF pq = <<>> THEN 0
    ELSE (IF pq[1][1] = p THEN pq[1][2] ELSE 0) + Requested(Tail(pq), p)

\* C4: a create_multiple_pizza_order call inside the endpoint's transaction
\* is all or nothing.  When it fails, at whatever step, no order, no line,
\* no stock change, no delivery-person change and no discount-code change
\* remains; when it succeeds, the order with all its lines and extras, the
\* stock decrements and the link to the discount code are all there.
C4_AllOrNothing ==
    [][last'.op = "create_multiple_pizza_order"
         => IF last'.error # ""
            THEN UNCHANGED <<stock, orders, dpStatus, dpRows, codes, loyalty_points>>
            ELSE /\ Len(orders') = Len(orders) + 1
                 /\ last'.ret = Some(Len(orders'))
                 /\ SubSeq(orders', 1, Len(orders)) = orders
                 /\ orders'[Len(orders')].lines = last'.pizza_quantities
                 /\ orders'[Len(orders')].extras
                      = {last'.extra_ids[k] : k \in 1..Len(last'.extra_ids)}
                 /\ \A p \in Pizzas :
                       stock'[p] = stock[p] - Requested(last'.pizza_quantities, p)
                 /\ last'.discount_code # ""
                      => codes'[last'.discount_code].used_by = Some(last'.user_id)]_vars

\* A call failed on its discount code, after the order, its lines and the
\* stock decrements were written in the session, and the stock is intact.
C4_Witness ==
    /\ last.op = "create_multiple_pizza_order"
    /\ last.error \in InvalidDiscount
    /\ last.discount_code = "USED10"
    /\ orders = <<>>
    /\ stock = BaseStore.stock

\* ----------------------------------------------------------------------- C5
\* C5: process_loyalty_points for a customer holding 9 points leaves the
\* customer with 0 points and exactly one new discount code of 10 percent,
\* unused, valid from now until now + 30 days, both in the one step; for a
\* customer holding fewer than 9 points it adds one point and no code.
C5_LoyaltyReward ==
    [][(last'.op = "process_loyalty_points" /\ last'.user_id \in Customers)
         => LET u == last'.user_id IN
            /\ loyalty_points[u] = 9
                 => /\ loyalty_points'[u] = 0
                    /\ Cardinality(DOMAIN codes' \ DOMAIN codes) = 1
                    /\ \A c \in DOMAIN codes : codes'[c] = codes[c]
                    /\ \A c \in DOMAIN codes' \ DOMAIN codes :
                          /\ last'.ret = Some(c)
                          /\ codes'[c].percentage = 10
                          /\ ~codes'[c].used
                          /\ codes'[c].used_by = None
                          /\ codes'[c].valid_from = Some(now)
                          /\ codes'[c].valid_until = now + 30
            /\ loyalty_points[u] < 9
                 => /\ loyalty_points'[u] = loyalty_points[u] + 1
                    /\ codes' = codes
                    /\ last'.ret = None
            /\ \A v \in Customers \ {u} : loyalty_points'[v] = loyalty_points[v]]_vars

\* The tenth point of a customer has just been turned into a code.
C5_Witness ==
    /\ last.op = "process_loyalty_points"
    /\ last.user_id \in Customers
    /\ last.ret # None
    /\ \A c \in last.ret : c \in DOMAIN codes /\ codes[c].valid_from = Some(now)
    /\ \A u \in Customers : u = last.user_id => loyalty_points[u] = 0

\* ----------------------------------------------------------------------- C6
\* C6 as stated: after an order creation that succeeded with a discount
\* code, that code has used = true and used_by = the ordering user.
C6_Stated ==
    (last.op \in CreationOps /\ last.error = "" /\ last.discount_code # "")
       => /\ codes[last.discount_code].used
          /\ codes[last.discount_code].used_by = Some(last.user_id)

\* ----------------------------------------------------------------------- C7
\* The code exists, is unused, and valid_from <= now <= valid_until.
Usable(c) ==
    /\ c \in DOMAIN codes
    /\ ~codes[c].used
    /\ \A f \in codes[c].valid_from : f <= now
    /\ now <= codes[c].valid_until

\* The outcome the same creation call has when it supplies no code (whom
\* random.choice picks has no part in it).
WithoutCode(call) ==
    IF call.op = "create_order"
    THEN create_order(Session, call.user_id, call.pizza_quantities, call.extra_ids, "",
                      "Pending", None, "", now)
    ELSE create_multiple_pizza_order(Session, call.user_id, call.pizza_quantities,
                                     call.extra_ids, "", "",
                                     CHOOSE d \in DOMAIN dpStatus : TRUE, now)

\* C7 as stated: an order creation that supplies a discount code succeeds
\* only if the code exists, is unused and valid_from <= now <= valid_until;
\* in every other case it fails with InvalidDiscount and no order is created.
C7_Stated ==
    [][(last'.op \in CreationOps /\ last'.discount_code # "")
         => /\ last'.error = "" => Usable(last'.discount_code)
            /\ ~Usable(last'.discount_code)
                 => (last'.error \in InvalidDiscount /\ orders' = orders)]_vars

\* C7, amended: an order creation that supplies a discount code succeeds
\* only if the code exists, is unused and valid_from <= now <= valid_until;
\* in every other case it fails and no order is created, and the error is
\* InvalidDiscount when the same request without the code would have
\* succeeded (the checks of user, pizzas, stock and extras come first and
\* raise their own error).
C7_CodeMustBeUsable ==
    [][(last'.op \in CreationOps /\ last'.discount_code # "")
         => /\ last'.error = "" => Usable(last'.discount_code)
            /\ ~Usable(last'.discount_code)
                 => /\ last'.error # ""
                    /\ orders' = orders
                    /\ WithoutCode(last').error = ""
                         => last'.error \in InvalidDiscount]_vars

\* An expired, unused code that exists has just been refused.
C7_Witness ==
    /\ last.op \in CreationOps
    /\ last.error \in InvalidDiscount
    /\ last.discount_code \in DOMAIN codes
    /\ ~codes[last.discount_code].used
    /\ now > codes[last.discount_code].valid_until
    /\ orders = <<>>

\* ----------------------------------------------------------------------- C8
\* C8: assign_delivery_person_to_order on an order whose status is not
\* In Progress, or that already has a delivery person, fails with
\* StateConflict and changes neither the order's delivery person nor any
\* delivery person's status.
C8_AssignRefused ==
    [][(/\ last'.op = "assign_delivery_person_to_order"
        /\ last'.order_id \in DOMAIN orders
        /\ \/ orders[last'.order_id].status # "In Progress"
           \/ orders[last'.order_id].delivery_person # None)
         => /\ last'.error \in StateConflict
            /\ orders' = orders
            /\ dpStatus' = dpStatus]_vars

\* An assignment was refused for an In Progress order that has a delivery
\* person, while somebody is Available.
C8_Witness ==
    /\ last.op = "assign_delivery_person_to_order"
    /\ last.error \in StateConflict
    /\ last.order_id \in DOMAIN orders
    /\ orders[last.order_id].status = "In Progress"
    /\ orders[last.order_id].delivery_person # None
    /\ \E d \in DOMAIN dpStatus : dpStatus[d] = "Available"

\* ----------------------------------------------------------------------- C9
LowestId(D) == CHOOSE d \in D : \A e \in D : d <= e

\* C9 as stated: a succeeding assign_delivery_person_to_order picks the
\* Available delivery person with the lowest id, sets the order's delivery
\* person to that person and the person's status to On Delivery, and leaves
\* every other delivery person's status unchanged.
C9_Stated ==
    [][(/\ last'.op = "assign_delivery_person_to_order"
        /\ last'.error = ""
        /\ last'.ret # None)
         => LET m == LowestId({d \in DOMAIN dpStatus : dpStatus[d] = "Available"}) IN
            /\ last'.ret = Some(m)
            /\ orders'[last'.order_id].delivery_person = Some(m)
            /\ dpStatus'[m] = "On Delivery"
            /\ \A d \in DOMAIN dpStatus \ {m} : dpStatus'[d] = dpStatus[d]]_vars

\* ---------------------------------------------------------------------- C10
\* C10: assign_delivery_person_to_order on an In Progress order without a
\* delivery person, when no delivery person is Available, returns None, raises
\* no error, and leaves the order and every delivery person unchanged.
C10_NobodyAvailable ==
    [][(/\ last'.op = "assign_delivery_person_to_order"
        /\ last'.order_id \in DOMAIN orders
        /\ orders[last'.order_id].status = "In Progress"
        /\ orders[last'.order_id].delivery_person = None
        /\ \A d \in DOMAIN dpStatus : dpStatus[d] # "Available")
         => /\ last'.error = ""
            /\ last'.ret = None
            /\ orders' = orders
            /\ dpStatus' = dpStatus
            /\ dpRows' = dpRows]_vars

\* The call returned None for an In Progress order that still has no
\* delivery person, nobody being Available.
C10_Witness ==
    /\ last.op = "assign_delivery_person_to_order"
    /\ last.error = ""
    /\ last.ret = None
    /\ last.order_id \in DOMAIN orders
    /\ orders[last.order_id].status = "In Progress"
    /\ orders[last.order_id].delivery_person = None
    /\ \A d \in DOMAIN dpStatus : dpStatus[d] # "Available"

\* ---------------------------------------------------------------------- C11
Available(st) == {d \in DOMAIN st : st[d] = "Available"}

\* C11: a succeeding create_multiple_pizza_order gives the new order a
\* delivery person who was Available whenever there is one; when nobody is
\* Available it gives it some existing delivery person and changes no
\* delivery person's status; when no delivery person exists the order is
\* created without one.
C11_DeliveryPersonChoice ==
    [][(last'.op = "create_multiple_pizza_order" /\ last'.error = "")
         => LET o == orders'[Len(orders')] IN
            /\ Len(orders') = Len(orders) + 1
            /\ Available(dpStatus) # {}
                 => \E d \in Available(dpStatus) : o.delivery_person = Some(d)
            /\ (Available(dpStatus) = {} /\ DOMAIN dpStatus # {})
                 => /\ \E d \in DOMAIN dpStatus : o.delivery_person = Some(d)
                    /\ dpStatus' = dpStatus
            /\ DOMAIN dpStatus = {} => o.delivery_person = None]_vars

\* An order has just been given a delivery person who is Off Duty, nobody
\* being Available: the fallback.
C11_Witness ==
    /\ last.op = "create_multiple_pizza_order"
    /\ last.error = ""
    /\ Available(dpStatus) = {}
    /\ \E d \in DOMAIN dpStatus :
          /\ orders[Len(orders)].delivery_person = Some(d)
          /\ dpStatus[d] = "Off Duty"

\* ---------------------------------------------------------------------- C12
\* C12: after a succeeding update_order that sets the status to Delivered the
\* order's delivered_at is set; when no delivered_at argument was given it is
\* the current time if it was unset before the call, and its previous value
\* if it was already set.
C12_DeliveredAt ==
    [][(/\ last'.op = "update_order"
        /\ last'.error = ""
        /\ last'.status = Some("Delivered"))
         => LET before == orders[last'.order_id]
                after  == orders'[last'.order_id]
            IN  /\ after.status = "Delivered"
                /\ after.delivered_at # None
                /\ (last'.delivered_at = None /\ before.delivered_at = None)
                     => after.delivered_at = Some(now)
                /\ (last'.delivered_at = None /\ before.delivered_at # None)
                     => after.delivered_at = before.delivered_at]_vars

\* An order delivered earlier has been moved to Delivered again without a
\* delivered_at argument, and still carries the earlier time.
C12_Witness ==
    /\ last.op = "update_order"
    /\ last.error = ""
    /\ last.status = Some("Delivered")
    /\ last.delivered_at = None
    /\ \E t \in 0..(now - 1) : orders[last.order_id].delivered_at = Some(t)

\* ---------------------------------------------------------------------- C13
\* C13 as stated: in every state reachable by customer creation, update_user
\* with a loyalty_points argument and process_loyalty_points, every
\* customer's loyalty_points is in 0..9.
C13_Stated == \A c \in Customers : loyalty_points[c] \in 0..9

\* ---------------------------------------------------------------------- C14
NotFound == {"Pizza not found", "User not found", "Extra not found", "Order not found",
             "Delivery person not found", "Discount code not found"}
PriceOps == {"calculate_pizza_price", "MenuView.calculate_pizza_price"}

\* The sum of the unit prices of a pizza's ingredients, in cents.
IngredientCost(p) ==
    LET has(i) == IF i \in ingredients[p] THEN IngredientPrice[i] ELSE 0
    IN  has(1) + has(2) + has(3)

\* C14: the price of an existing pizza is the sum of its ingredients' unit
\* prices times 1.40 times 1.09 rounded to the nearest cent, 0 for a pizza
\* without ingredients and 2.29 for ingredients of 0.50 and 1.00; it is
\* decided by the ingredient set alone, which no call or order changes; for
\* an unknown pizza id the call fails with NotFound.
C14_PizzaPrice ==
    /\ [](last.op \in PriceOps
            => IF last.pizza_id \notin Pizzas
               THEN last.error \in NotFound
               ELSE /\ last.error = ""
                    /\ Cardinality(last.ret) = 1
                    /\ \A price \in last.ret :
                          /\ price * 10000 >= IngredientCost(last.pizza_id) * 140 * 109 - 5000
                          /\ price * 10000 <= IngredientCost(last.pizza_id) * 140 * 109 + 5000
                          /\ ingredients[last.pizza_id] = {} => price = 0
                          /\ ingredients[last.pizza_id] = {1, 2} => price = 229)
    /\ [][ingredients' = ingredients]_vars

\* The 0.50 + 1.00 pizza has been priced at 2.29 after two orders were placed.
C14_Witness ==
    /\ last.op \in PriceOps
    /\ last.ret = Some(229)
    /\ ingredients[last.pizza_id] = {1, 2}
    /\ Len(orders) = 2


\* The undiscounted total of order o: price(pizza) * quantity over its lines
\* plus the prices of its extras.
Subtotal(o) == PizzaCosts(Session, orders[o].lines) + SumOver(orders[o].extras, ExtraPrice)

\* The last call asked for the confirmation of an existing order.
Confirmed(o) == last.op = "get_order_confirmation" /\ last.order_id = o /\ o \in DOMAIN orders

\* C15: the confirmation of an order created with a percentage code of p%
\* reports the discount amount subtotal * p / 100 to the nearest cent and
\* total_price = subtotal - that amount; two 2.29 pizzas and the 2.00 extra
\* with the 10% code give 6.58, 0.66 and 5.92.
C15_Stated ==
    \A o \in DOMAIN orders :
        (Confirmed(o) /\ supplied[o] # "" /\ codes[supplied[o]].percentage > 0)
        => \A conf \in last.ret :
              /\ \E d \in conf.discount :
                    /\ 100 * d.amount <= Subtotal(o) * codes[supplied[o]].percentage + 50
                    /\ 100 * d.amount >= Subtotal(o) * codes[supplied[o]].percentage - 50
                    /\ conf.total_price = Subtotal(o) - d.amount
              /\ (orders[o].lines = <<<<1, 2>>>> /\ orders[o].extras = {1}
                     /\ codes[supplied[o]].percentage = 10)
                 => /\ Subtotal(o) = 658
                    /\ \E d \in conf.discount : d.amount = 66
                    /\ conf.total_price = 592

\* The price of the cheapest Drink among the extras of order o, 0 without one.
CheapestDrinkPrice(o) ==
    LET drinks == {x \in orders[o].extras : ExtraType[x] = "Drink"}
    IN  IF drinks = {} THEN 0 ELSE Minimum({ExtraPrice[x] : x \in drinks})

\* The unit price of the cheapest pizza among the lines of order o.
CheapestPizzaPrice(o) ==
    Minimum({UnitPrice(Session, orders[o].lines[k][1]) : k \in 1..Len(orders[o].lines)})

\* C16: whenever a confirmation applies a birthday (0%) code, the discount
\* amount is the unit price of the cheapest pizza of the order plus the price
\* of its cheapest Drink extra, 0 for the drink when it has none and Desserts
\* never counting (the 2.29 pizza and the 1.50 drink give 3.79); and the
\* confirmation of the latest order, created with a birthday code, applies
\* that code.
C16_BirthdayDiscount ==
    \A o \in DOMAIN orders :
        Confirmed(o)
        => \A conf \in last.ret :
              /\ \A d \in conf.discount :
                    d.type = "birthday"
                    => /\ d.amount = CheapestPizzaPrice(o) + CheapestDrinkPrice(o)
                       /\ (CheapestPizzaPrice(o) = 229 /\ 3 \in orders[o].extras)
                          => d.amount = 379
              /\ (o = Len(orders) /\ supplied[o] # "" /\ codes[supplied[o]].percentage = 0)
                 => \E d \in conf.discount : d.type = "birthday" /\ d.code = supplied[o]

\* The confirmation of an order of both pizzas with both drinks and the
\* dessert, created with the birthday code, credits 2.29 + 1.50.
C16_Witness ==
    \E o \in DOMAIN orders :
        /\ Confirmed(o)
        /\ supplied[o] = "BDAY"
        /\ orders[o].lines = <<<<1, 1>>, <<2, 1>>>>
        /\ orders[o].extras = {1, 2, 3}
        /\ \E conf \in last.ret : \E d \in conf.discount :
              d.type = "birthday" /\ d.amount = 379

\* The customers whose birthdate, some whole number of years back, is today.
BornToday == {c \in Customers : \E b \in birthdate[c] : (now - b) % YearDays = 0}

\* C17: a run of process_birthday_discounts creates exactly as many new codes
\* as there are customers whose birthdate has today's month and day (none for
\* a customer with another or no birthdate), each with percentage 0, used
\* false, valid_from now and valid_until now + 7 days, returns them, and
\* leaves every existing code and everything else unchanged.
C17_BirthdaySweep ==
    [][last'.op = "process_birthday_discounts"
       => LET new == DOMAIN codes' \ DOMAIN codes
          IN  /\ last'.error = ""
              /\ Cardinality(new) = Cardinality(BornToday)
              /\ last'.ret = Some(new)
              /\ \A c \in new :
                    codes'[c] = [percentage |-> 0, used |-> FALSE, used_by |-> None,
                                 valid_from |-> Some(now), valid_until |-> now + 7]
              /\ \A c \in DOMAIN codes : c \in DOMAIN codes' /\ codes'[c] = codes[c]
              /\ UNCHANGED <<stock, orders, dpStatus, dpRows, ingredients, loyalty_points,
                             birthdate>>]_vars

\* A second run on the same day: one customer has her birthday, the other
\* has none today, the run returned one code and the code of an earlier run
\* of the day is still there.
C17_Witness ==
    /\ last.op = "process_birthday_discounts"
    /\ Cardinality(BornToday) = 1
    /\ \E c \in DOMAIN codes :
          /\ last.ret = Some({c})
          /\ \E e \in DOMAIN codes \ {c} : codes[e] = codes[c]

\* The pizzas MenuView.get_pizza_dietary_type classifies as the given type.
Classified(type) == {p \in Pizzas : get_pizza_dietary_type(Session, p) = type}

\* C18 as stated: the pizzas returned by QueryManager.get_vegan_pizzas and by
\* the VEGAN filter of MenuView.get_pizzas_with_prices_and_filters are exactly
\* the pizzas get_pizza_dietary_type classifies as Vegan, pizzas with no
\* ingredients included.
C18_Stated ==
    /\ last.op = "get_vegan_pizzas" => last.ret = Some(Classified("Vegan"))
    /\ (last.op = "get_pizzas_with_prices_and_filters" /\ last.status = Some("vegan"))
       => \A result \in last.ret : {x.id : x \in result} = Classified("Vegan")

Endpoints == {"POST /order-multiple-pizzas/{user_id}", "POST /order-multiple-pizzas",
              "POST /orders/{order_id}/assign-delivery"}
InvalidInput == {"At least one pizza is required", "At least one pizza must be ordered",
                 "Quantity must be positive", "Postal code must be provided",
                 "Postal code cannot be empty", "Order ID is required", "User ID is required"}

\* C19 as stated: at the order and assign-delivery endpoints a NotFound error
\* is answered with 404 and with no other status, and an InvalidInput,
\* InsufficientStock or InvalidDiscount error with 400.
C19_Stated ==
    last.op \in Endpoints
    => /\ last.error \in NotFound \cup {"Customer not found"} => last.status_code = 404
       /\ last.error \in InvalidInput \cup InsufficientStock \cup InvalidDiscount
          => last.status_code = 400

\* C20: update_order never changes a delivery person's status, whatever
\* status and delivery person it is given; moving an order to Delivered or
\* Cancelled leaves its delivery person (e.g. On Delivery) as it was.
C20_DeliveryStatusUntouched ==
    [][last'.op = "update_order" => dpStatus' = dpStatus]_vars

\* An order has just been moved to Delivered and its delivery person is
\* still On Delivery.
C20_Witness ==
    /\ last.op = "update_order"
    /\ last.error = ""
    /\ last.status = Some("Delivered")
    /\ last.order_id \in DOMAIN orders
    /\ \E d \in orders[last.order_id].delivery_person : dpStatus[d] = "On Delivery"

\* The quantity of pizza p over the lines of one order, and over all orders.
RECURSIVE OrderedInLines(_, _)
OrderedInLines(lines, p) ==
    IF lines = <<>> THEN 0
    ELSE (IF lines[1][1] = p THEN lines[1][2] ELSE 0) + OrderedInLines(Tail(lines), p)
RECURSIVE OrderedUpTo(_, _)
OrderedUpTo(n, p) ==
    IF n = 0 THEN 0 ELSE OrderedInLines(orders[n].lines, p) + OrderedUpTo(n - 1, p)

\* C21 as stated: after any sequence of successful and failed creations by
\* create_multiple_pizza_order and create_order, for every pizza the initial
\* stock is the current stock plus the quantities of all persisted lines.
C21_Stated ==
    \A p \in Pizzas : BaseStore.stock[p] = stock[p] + OrderedUpTo(Len(orders), p)

C23_Stated ==
    [][(last'.op = "POST /order-multiple-pizzas" /\ last'.status_code >= 400)
       => /\ orders' = orders
          /\ stock' = stock
          /\ dpStatus' = dpStatus
          /\ \A c \in DOMAIN codes : codes'[c].used = codes[c].used]_vars

\* The token of the last request fails authentication: it is missing, does
\* not decode, has expired or names no subject.
BadToken ==
    \E tok \in last.token :
        tok.kind \in {"missing", "garbage"} \/ tok.exp < now \/ tok.sub = None

\* C24 as stated: at /auth/me, /auth/refresh, /v1/info and
\* /v1/order-multiple-pizzas a missing, expired or invalid token is answered
\* with 401 (or 403), never with 500, and yields no new token.
C24_Stated ==
    (last.op \in AuthEndpoints /\ BadToken)
    => /\ last.status_code \in {401, 403}
       /\ last.ret = None

\* C25 as stated: the confirmation of an order created without a discount
\* code reports no discount and the undiscounted subtotal as total_price,
\* whatever other orders the same user has created before or since.
C25_Stated ==
    \A o \in DOMAIN orders :
        (Confirmed(o) /\ supplied[o] = "")
        => \A conf \in last.ret :
              /\ conf.discount = None
              /\ conf.total_price = Subtotal(o)

\* The lines of pq for pizza p, and whether pq lists p in two or more lines
\* that each fit the stock st while their sum exceeds it.
LinesFor(pq, p) == {k \in 1..Len(pq) : pq[k][1] = p}
SplitOver(pq, st) ==
    \E p \in Pizzas :
        /\ Cardinality(LinesFor(pq, p)) >= 2
        /\ \A k \in LinesFor(pq, p) : pq[k][2] >= 1 /\ pq[k][2] <= st[p]
        /\ OrderedInLines(pq, p) > st[p]

\* C26: a creation request that lists the same pizza in two or more lines,
\* each within the current stock but together above it, fails, persists no
\* order and leaves the stock unchanged and not negative.
C26_SplitLines ==
    [][(last'.op \in CreationOps /\ SplitOver(last'.pizza_quantities, stock))
       => /\ last'.error # ""
          /\ orders' = orders
          /\ stock' = stock
          /\ \A p \in Pizzas : stock'[p] >= 0]_vars

\* create_multiple_pizza_order has just refused two lines of pizza 1 that
\* pass the stock check one by one.
C26_Witness ==
    /\ last.op = "create_multiple_pizza_order"
    /\ last.error = "CacheIndexError"
    /\ SplitOver(last.pizza_quantities, stock)
    /\ Len(last.pizza_quantities) = 2
    /\ last.pizza_quantities[1][1] = 1

\* C27: an update_order call that fails (unknown order, unknown delivery
\* person, empty or blank postal code) leaves every order's status,
\* delivered_at, delivery_person and postal code, and everything else, as
\* before the call.
C27_FailedUpdate ==
    [][(last'.op = "update_order" /\ last'.error # "")
       => /\ orders' = orders
          /\ UNCHANGED <<stock, dpStatus, codes, loyalty_points>>]_vars

\* A call that asked for Delivered with a blank postal code has failed and
\* the order is not Delivered and has no delivered_at.
C27_Witness ==
    /\ last.op = "update_order"
    /\ last.error = "Postal code cannot be empty"
    /\ last.status = Some("Delivered")
    /\ last.order_id \in DOMAIN orders
    /\ orders[last.order_id].status = "Pending"
    /\ orders[last.order_id].delivered_at = None

\* C28 as stated: an order's delivery_person, once set, is never cleared by
\* any operation, and assign_delivery_person_to_order never succeeds on an
\* order that create_multiple_pizza_order produced while a delivery person
\* existed.  (Delivery persons are never added here, so an order created
\* without one can never be assigned one: every successful assignment is on an
\* order created with a delivery person.)
Assigned(l) == l.op = "assign_delivery_person_to_order" /\ l.error = "" /\ l.ret # None
StaysAssigned == \A o \in DOMAIN orders : orders[o].delivery_person # None => orders'[o].delivery_person # None
C28_Stated == [][StaysAssigned /\ ~Assigned(last')]_vars

\* C28, amended: create_multiple_pizza_order, update_order and
\* assign_delivery_person_to_order never clear an order's delivery_person: only
\* remove_user of that delivery person does, and an assignment succeeds only
\* after some delivery person has been removed.
C28_UnlessRemoved == [][/\ last'.op # "remove_user" => StaysAssigned
                        /\ Assigned(last') => DOMAIN dpStatus # DeliveryPersons]_vars

\* An order moved to In Progress is refused by assign_delivery_person_to_order
\* because it still has the delivery person of its creation.
C28_Witness ==
    /\ last.op = "assign_delivery_person_to_order"
    /\ last.error = "Order already has a delivery person assigned"
    /\ orders[last.order_id].status = "In Progress"
    /\ DOMAIN dpStatus = DeliveryPersons

\* C29 as stated: the number of Available delivery persons never increases
\* under create_multiple_pizza_order, update_order,
\* assign_delivery_person_to_order, process_loyalty_points or the birthday
\* sweep; it rises only through update_delivery_person_status or update_user;
\* and while no one is Available an assignment returns None.
Rises == Cardinality(Available(dpStatus')) > Cardinality(Available(dpStatus))
NoneAssigned == (Available(dpStatus) = {} /\ last'.op = "assign_delivery_person_to_order" /\ last'.error = "") => last'.ret = None
C29_Stated == [][/\ Rises => last'.op \in {"update_delivery_person_status", "update_user"}
                 /\ NoneAssigned]_vars

\* C29, amended: the number of Available delivery persons rises only through
\* update_delivery_person_status, update_user or the registration of a new
\* delivery person (create_full_user); whatever the number of orders marked
\* Delivered, an assignment made while no one is Available returns None.
C29_AvailableRises == [][/\ Rises => last'.op \in {"update_delivery_person_status", "update_user", "create_full_user"}
                         /\ NoneAssigned]_vars

\* An eligible order is offered for assignment and gets None, although the
\* only delivery person's order has been marked Delivered.
C29_Witness ==
    /\ last.op = "assign_delivery_person_to_order"
    /\ last.error = ""
    /\ last.ret = None
    /\ DOMAIN dpStatus # {}
    /\ \E o \in DOMAIN orders : orders[o].status = "Delivered" /\ orders[o].delivery_person # None

\* C30: when two assign_delivery_person_to_order requests run concurrently,
\* each reading the Available delivery persons and writing its assignment in
\* its own transaction, no delivery person is assigned to two orders: of two
\* requests that saw the same person first, at most one commits and the other
\* fails.
Committed(r) == txn[r].pc = "committed" /\ txn[r].available # <<>>
====
